---- MODULE Spec2Model ----
(***************************************************************************)
(* TAXII -> Neo4j synchronizer (neo4j-taxii.py).                           *)
(*                                                                         *)
(* Strings that the program inspects or rewrites character by character    *)
(* (type tags, relationship types, ids) are sequences of one-character     *)
(* strings.  A decoded JSON value is a tagged record [k, s, l]: k is the   *)
(* Python type, s the characters of a scalar, l the items of a list.       *)
(* The graph store is a pair of bags: vertices [label, props] and edges    *)
(* [src, tgt, type, props], so that duplicates are representable.          *)
(***************************************************************************)
EXTENDS Bags, FiniteSets, Integers, Sequences, TLC

VARIABLES
    nodes,        \* graph store: bag of vertices [label, props]
    edges,        \* graph store: bag of edges [src, tgt, type, props]
    lastRec,      \* history: the record of the latest load_stix_object call
    lastWrites,   \* history: the execute_write calls of that call, in order
    streak,       \* history: consecutive failure-free calls with lastRec (capped)
    pc,           \* main: position of the polling loop
    current_url,  \* fetch_stix_objects: URL of the next request, or NoUrl
    all_objects,  \* fetch_stix_objects: records accumulated in this cycle
    requests,     \* history: URLs requested in this cycle
    responses,    \* history: responses received in this cycle
    idx,          \* main: position of the for-loop in the fetched batch
    cycleStart,   \* history: the graph when this cycle began
    slept,        \* main: seconds slept since the for-loop or the fetch ended
    san           \* a name and what the two sanitizers make of it

loopVars == <<pc, current_url, all_objects, requests, responses, idx, cycleStart, slept>>
vars == <<nodes, edges, lastRec, lastWrites, streak,
          pc, current_url, all_objects, requests, responses, idx, cycleStart,
          slept, san>>

(* ---------------- bounds ---------------- *)
MaxPages == 3        \* pages of one walk of the fetcher (SpecFetch)
MaxCyclePages == 2   \* pages of one poll cycle (Spec)
MaxRepeat == 3       \* consecutive deliveries of one record that are counted
MaxNameLen == 3      \* characters of a name handed to the sanitizers (SpecSanitize)
MaxWalkPages == 3    \* pages of the longest chain the feed of SpecWalk serves

(* ---------------- program constants ---------------- *)
POLL_INTERVAL_SECONDS == 10
TAXII_BASE_URL == <<"b","a","s","e">>

(* ---------------- decoded JSON values ---------------- *)
S(chars) == [k |-> "str", s |-> chars, l |-> <<>>]
N(chars) == [k |-> "int", s |-> chars, l |-> <<>>]
Bool(b) == [k |-> "bool", s |-> IF b THEN <<"1">> ELSE <<"0">>, l |-> <<>>]
L(items) == [k |-> "list", s |-> <<>>, l |-> items]
None == [k |-> "none", s |-> <<>>, l |-> <<>>]

\* dict.get(key, default); a missing key without default gives None
Get(obj, key, default) == IF key \in DOMAIN obj THEN obj[key] ELSE default

\* isinstance(v, (str, int, float, bool))
IsScalar(v) == v.k \in {"str", "int", "float", "bool"}

\* variant: "is not None" instead of truthiness
TruthyNotNone(v) == v.k # "none"

\* Python truthiness of a decoded value; the field s of a float is its repr
Truthy(v) ==
    CASE v.k = "none" -> FALSE
      [] v.k = "str" -> Len(v.s) > 0
      [] v.k = "list" -> Len(v.l) > 0
      [] v.k \in {"int", "bool"} -> v.s # <<"0">>
      [] v.k = "float" -> v.s \notin {<<"0",".","0">>, <<"-","0",".","0">>}
      [] OTHER -> TRUE

\* {k: v for k, v in obj.items() if isinstance(v, (str, int, float, bool))}
\* A property map is a set of <<key, value>> pairs with distinct keys.
ScalarProps(obj) ==
    {<<key, obj[key]>> : key \in {x \in DOMAIN obj : IsScalar(obj[x])}}

(* ---------------- str methods ---------------- *)
\* A string is a sequence of characters.  A character of Latin-1
\* (U+0000..U+00FF) is written as itself; the backtick and the characters
\* beyond Latin-1, which a string of this module cannot hold, are written by
\* their code point ("U+0060", "U+0178").
\* the printable characters of ASCII and of Latin-1 (str.isprintable())
PrintableAscii == {
    " ", "!", "\"", "#", "$", "%", "&", "'", "(", ")", "*", "+", ",", "-", ".", "/",
    "0", "1", "2", "3", "4", "5", "6", "7", "8", "9", ":", ";", "<", "=", ">", "?",
    "@", "A", "B", "C", "D", "E", "F", "G", "H", "I", "J", "K", "L", "M", "N", "O",
    "P", "Q", "R", "S", "T", "U", "V", "W", "X", "Y", "Z", "[", "\\", "]", "^", "_",
    "U+0060", "a", "b", "c", "d", "e", "f", "g", "h", "i", "j", "k", "l", "m", "n", "o",
    "p", "q", "r", "s", "t", "u", "v", "w", "x", "y", "z", "{", "|", "}", "~" }
PrintableLatin1 == {
    "¡", "¢", "£", "¤", "¥", "¦", "§", "¨", "©", "ª", "«", "¬", "®", "¯", "°", "±",
    "²", "³", "´", "µ", "¶", "·", "¸", "¹", "º", "»", "¼", "½", "¾", "¿", "À", "Á",
    "Â", "Ã", "Ä", "Å", "Æ", "Ç", "È", "É", "Ê", "Ë", "Ì", "Í", "Î", "Ï", "Ð", "Ñ",
    "Ò", "Ó", "Ô", "Õ", "Ö", "×", "Ø", "Ù", "Ú", "Û", "Ü", "Ý", "Þ", "ß", "à", "á",
    "â", "ã", "ä", "å", "æ", "ç", "è", "é", "ê", "ë", "ì", "í", "î", "ï", "ð", "ñ",
    "ò", "ó", "ô", "õ", "ö", "÷", "ø", "ù", "ú", "û", "ü", "ý", "þ", "ÿ" }

\* what repr(str) writes for one character inside the quotes.  Defined for
\* tab, newline, carriage return and the characters from U+0020 to U+00FF
\* except U+007F..U+009F; no other character may occur in a list that is
\* rendered.
PyEscapeChar(c, quote) ==
    CASE c = "\\" \/ c = quote -> <<"\\", c>>
      [] c = "\t" -> <<"\\", "t">>
      [] c = "\n" -> <<"\\", "n">>
      [] c = "\r" -> <<"\\", "r">>
      [] c = " " -> <<"\\", "x", "a", "0">>
      [] c = "­" -> <<"\\", "x", "a", "d">>
      [] c # "\\" /\ c # quote /\ c \in PrintableAscii \cup PrintableLatin1 -> <<c>>

RECURSIVE PyEscape(_, _)
\* the body of repr(str)
PyEscape(chars, quote) ==
    IF chars = <<>> THEN <<>>
    ELSE PyEscapeChar(Head(chars), quote) \o PyEscape(Tail(chars), quote)

\* repr(str): single quotes, double quotes when the string holds a single
\* quote and no double quote
PyReprStr(chars) ==
    LET quote == IF (\E i \in DOMAIN chars : chars[i] = "'")
                    /\ ~(\E i \in DOMAIN chars : chars[i] = "\"")
                 THEN "\"" ELSE "'"
    IN <<quote>> \o PyEscape(chars, quote) \o <<quote>>

RECURSIVE PyJoinRepr(_)
\* ", ".join(repr(x) for x in items)
PyJoinRepr(items) ==
    IF items = <<>> THEN <<>>
    ELSE PyReprStr(Head(items))
         \o (IF Tail(items) = <<>> THEN <<>> ELSE <<",", " ">> \o PyJoinRepr(Tail(items)))

\* str(v), as an f-string renders v
PyStr(v) ==
    CASE v.k = "bool" -> IF v.s = <<"0">> THEN <<"F","a","l","s","e">> ELSE <<"T","r","u","e">>
      [] v.k = "list" -> <<"[">> \o PyJoinRepr(v.l) \o <<"]">>
      [] v.k = "none" -> <<"N","o","n","e">>
      [] OTHER -> v.s

\* str.replace(from, to) for one-character arguments
Replace(str, from, to) ==
    [i \in 1..Len(str) |-> IF str[i] = from THEN to ELSE str[i]]

LowerLetters == <<"a","b","c","d","e","f","g","h","i","j","k","l","m",
                  "n","o","p","q","r","s","t","u","v","w","x","y","z">>
UpperLetters == <<"A","B","C","D","E","F","G","H","I","J","K","L","M",
                  "N","O","P","Q","R","S","T","U","V","W","X","Y","Z">>
Digits == {"0","1","2","3","4","5","6","7","8","9"}

\* The characters outside ASCII that str.upper() changes (Unicode 14.0.0), in
\* code point order, and what it makes of each (one to three characters):
OtherLower == <<
    "µ", "ß", "à", "á", "â", "ã", "ä", "å", "æ", "ç", "è", "é",
    "ê", "ë", "ì", "í", "î", "ï", "ð", "ñ", "ò", "ó", "ô", "õ",
    "ö", "ø", "ù", "ú", "û", "ü", "ý", "þ", "ÿ", "U+0101", "U+0103", "U+0105",
    "U+0107", "U+0109", "U+010B", "U+010D", "U+010F", "U+0111", "U+0113", "U+0115", "U+0117", "U+0119", "U+011B", "U+011D",
    "U+011F", "U+0121", "U+0123", "U+0125", "U+0127", "U+0129", "U+012B", "U+012D", "U+012F", "U+0131", "U+0133", "U+0135",
    "U+0137", "U+013A", "U+013C", "U+013E", "U+0140", "U+0142", "U+0144", "U+0146", "U+0148", "U+0149", "U+014B", "U+014D",
    "U+014F", "U+0151", "U+0153", "U+0155", "U+0157", "U+0159", "U+015B", "U+015D", "U+015F", "U+0161", "U+0163", "U+0165",
    "U+0167", "U+0169", "U+016B", "U+016D", "U+016F", "U+0171", "U+0173", "U+0175", "U+0177", "U+017A", "U+017C", "U+017E",
    "U+017F", "U+0180", "U+0183", "U+0185", "U+0188", "U+018C", "U+0192", "U+0195", "U+0199", "U+019A", "U+019E", "U+01A1",
    "U+01A3", "U+01A5", "U+01A8", "U+01AD", "U+01B0", "U+01B4", "U+01B6", "U+01B9", "U+01BD", "U+01BF", "U+01C5", "U+01C6",
    "U+01C8", "U+01C9", "U+01CB", "U+01CC", "U+01CE", "U+01D0", "U+01D2", "U+01D4", "U+01D6", "U+01D8", "U+01DA", "U+01DC",
    "U+01DD", "U+01DF", "U+01E1", "U+01E3", "U+01E5", "U+01E7", "U+01E9", "U+01EB", "U+01ED", "U+01EF", "U+01F0", "U+01F2",
    "U+01F3", "U+01F5", "U+01F9", "U+01FB", "U+01FD", "U+01FF", "U+0201", "U+0203", "U+0205", "U+0207", "U+0209", "U+020B",
    "U+020D", "U+020F", "U+0211", "U+0213", "U+0215", "U+0217", "U+0219", "U+021B", "U+021D", "U+021F", "U+0223", "U+0225",
    "U+0227", "U+0229", "U+022B", "U+022D", "U+022F", "U+0231", "U+0233", "U+023C", "U+023F", "U+0240", "U+0242", "U+0247",
    "U+0249", "U+024B", "U+024D", "U+024F", "U+0250", "U+0251", "U+0252", "U+0253", "U+0254", "U+0256", "U+0257", "U+0259",
    "U+025B", "U+025C", "U+0260", "U+0261", "U+0263", "U+0265", "U+0266", "U+0268", "U+0269", "U+026A", "U+026B", "U+026C",
    "U+026F", "U+0271", "U+0272", "U+0275", "U+027D", "U+0280", "U+0282", "U+0283", "U+0287", "U+0288", "U+0289", "U+028A",
    "U+028B", "U+028C", "U+0292", "U+029D", "U+029E", "U+0345", "U+0371", "U+0373", "U+0377", "U+037B", "U+037C", "U+037D",
    "U+0390", "U+03AC", "U+03AD", "U+03AE", "U+03AF", "U+03B0", "U+03B1", "U+03B2", "U+03B3", "U+03B4", "U+03B5", "U+03B6",
    "U+03B7", "U+03B8", "U+03B9", "U+03BA", "U+03BB", "U+03BC", "U+03BD", "U+03BE", "U+03BF", "U+03C0", "U+03C1", "U+03C2",
    "U+03C3", "U+03C4", "U+03C5", "U+03C6", "U+03C7", "U+03C8", "U+03C9", "U+03CA", "U+03CB", "U+03CC", "U+03CD", "U+03CE",
    "U+03D0", "U+03D1", "U+03D5", "U+03D6", "U+03D7", "U+03D9", "U+03DB", "U+03DD", "U+03DF", "U+03E1", "U+03E3", "U+03E5",
    "U+03E7", "U+03E9", "U+03EB", "U+03ED", "U+03EF", "U+03F0", "U+03F1", "U+03F2", "U+03F3", "U+03F5", "U+03F8", "U+03FB",
    "U+0430", "U+0431", "U+0432", "U+0433", "U+0434", "U+0435", "U+0436", "U+0437", "U+0438", "U+0439", "U+043A", "U+043B",
    "U+043C", "U+043D", "U+043E", "U+043F", "U+0440", "U+0441", "U+0442", "U+0443", "U+0444", "U+0445", "U+0446", "U+0447",
    "U+0448", "U+0449", "U+044A", "U+044B", "U+044C", "U+044D", "U+044E", "U+044F", "U+0450", "U+0451", "U+0452", "U+0453",
    "U+0454", "U+0455", "U+0456", "U+0457", "U+0458", "U+0459", "U+045A", "U+045B", "U+045C", "U+045D", "U+045E", "U+045F",
    "U+0461", "U+0463", "U+0465", "U+0467", "U+0469", "U+046B", "U+046D", "U+046F", "U+0471", "U+0473", "U+0475", "U+0477",
    "U+0479", "U+047B", "U+047D", "U+047F", "U+0481", "U+048B", "U+048D", "U+048F", "U+0491", "U+0493", "U+0495", "U+0497",
    "U+0499", "U+049B", "U+049D", "U+049F", "U+04A1", "U+04A3", "U+04A5", "U+04A7", "U+04A9", "U+04AB", "U+04AD", "U+04AF",
    "U+04B1", "U+04B3", "U+04B5", "U+04B7", "U+04B9", "U+04BB", "U+04BD", "U+04BF", "U+04C2", "U+04C4", "U+04C6", "U+04C8",
    "U+04CA", "U+04CC", "U+04CE", "U+04CF", "U+04D1", "U+04D3", "U+04D5", "U+04D7", "U+04D9", "U+04DB", "U+04DD", "U+04DF",
    "U+04E1", "U+04E3", "U+04E5", "U+04E7", "U+04E9", "U+04EB", "U+04ED", "U+04EF", "U+04F1", "U+04F3", "U+04F5", "U+04F7",
    "U+04F9", "U+04FB", "U+04FD", "U+04FF", "U+0501", "U+0503", "U+0505", "U+0507", "U+0509", "U+050B", "U+050D", "U+050F",
    "U+0511", "U+0513", "U+0515", "U+0517", "U+0519", "U+051B", "U+051D", "U+051F", "U+0521", "U+0523", "U+0525", "U+0527",
    "U+0529", "U+052B", "U+052D", "U+052F", "U+0561", "U+0562", "U+0563", "U+0564", "U+0565", "U+0566", "U+0567", "U+0568",
    "U+0569", "U+056A", "U+056B", "U+056C", "U+056D", "U+056E", "U+056F", "U+0570", "U+0571", "U+0572", "U+0573", "U+0574",
    "U+0575", "U+0576", "U+0577", "U+0578", "U+0579", "U+057A", "U+057B", "U+057C", "U+057D", "U+057E", "U+057F", "U+0580",
    "U+0581", "U+0582", "U+0583", "U+0584", "U+0585", "U+0586", "U+0587", "U+10D0", "U+10D1", "U+10D2", "U+10D3", "U+10D4",
    "U+10D5", "U+10D6", "U+10D7", "U+10D8", "U+10D9", "U+10DA", "U+10DB", "U+10DC", "U+10DD", "U+10DE", "U+10DF", "U+10E0",
    "U+10E1", "U+10E2", "U+10E3", "U+10E4", "U+10E5", "U+10E6", "U+10E7", "U+10E8", "U+10E9", "U+10EA", "U+10EB", "U+10EC",
    "U+10ED", "U+10EE", "U+10EF", "U+10F0", "U+10F1", "U+10F2", "U+10F3", "U+10F4", "U+10F5", "U+10F6", "U+10F7", "U+10F8",
    "U+10F9", "U+10FA", "U+10FD", "U+10FE", "U+10FF", "U+13F8", "U+13F9", "U+13FA", "U+13FB", "U+13FC", "U+13FD", "U+1C80",
    "U+1C81", "U+1C82", "U+1C83", "U+1C84", "U+1C85", "U+1C86", "U+1C87", "U+1C88", "U+1D79", "U+1D7D", "U+1D8E", "U+1E01",
    "U+1E03", "U+1E05", "U+1E07", "U+1E09", "U+1E0B", "U+1E0D", "U+1E0F", "U+1E11", "U+1E13", "U+1E15", "U+1E17", "U+1E19",
    "U+1E1B", "U+1E1D", "U+1E1F", "U+1E21", "U+1E23", "U+1E25", "U+1E27", "U+1E29", "U+1E2B", "U+1E2D", "U+1E2F", "U+1E31",
    "U+1E33", "U+1E35", "U+1E37", "U+1E39", "U+1E3B", "U+1E3D", "U+1E3F", "U+1E41", "U+1E43", "U+1E45", "U+1E47", "U+1E49",
    "U+1E4B", "U+1E4D", "U+1E4F", "U+1E51", "U+1E53", "U+1E55", "U+1E57", "U+1E59", "U+1E5B", "U+1E5D", "U+1E5F", "U+1E61",
    "U+1E63", "U+1E65", "U+1E67", "U+1E69", "U+1E6B", "U+1E6D", "U+1E6F", "U+1E71", "U+1E73", "U+1E75", "U+1E77", "U+1E79",
    "U+1E7B", "U+1E7D", "U+1E7F", "U+1E81", "U+1E83", "U+1E85", "U+1E87", "U+1E89", "U+1E8B", "U+1E8D", "U+1E8F", "U+1E91",
    "U+1E93", "U+1E95", "U+1E96", "U+1E97", "U+1E98", "U+1E99", "U+1E9A", "U+1E9B", "U+1EA1", "U+1EA3", "U+1EA5", "U+1EA7",
    "U+1EA9", "U+1EAB", "U+1EAD", "U+1EAF", "U+1EB1", "U+1EB3", "U+1EB5", "U+1EB7", "U+1EB9", "U+1EBB", "U+1EBD", "U+1EBF",
    "U+1EC1", "U+1EC3", "U+1EC5", "U+1EC7", "U+1EC9", "U+1ECB", "U+1ECD", "U+1ECF", "U+1ED1", "U+1ED3", "U+1ED5", "U+1ED7",
    "U+1ED9", "U+1EDB", "U+1EDD", "U+1EDF", "U+1EE1", "U+1EE3", "U+1EE5", "U+1EE7", "U+1EE9", "U+1EEB", "U+1EED", "U+1EEF",
    "U+1EF1", "U+1EF3", "U+1EF5", "U+1EF7", "U+1EF9", "U+1EFB", "U+1EFD", "U+1EFF", "U+1F00", "U+1F01", "U+1F02", "U+1F03",
    "U+1F04", "U+1F05", "U+1F06", "U+1F07", "U+1F10", "U+1F11", "U+1F12", "U+1F13", "U+1F14", "U+1F15", "U+1F20", "U+1F21",
    "U+1F22", "U+1F23", "U+1F24", "U+1F25", "U+1F26", "U+1F27", "U+1F30", "U+1F31", "U+1F32", "U+1F33", "U+1F34", "U+1F35",
    "U+1F36", "U+1F37", "U+1F40", "U+1F41", "U+1F42", "U+1F43", "U+1F44", "U+1F45", "U+1F50", "U+1F51", "U+1F52", "U+1F53",
    "U+1F54", "U+1F55", "U+1F56", "U+1F57", "U+1F60", "U+1F61", "U+1F62", "U+1F63", "U+1F64", "U+1F65", "U+1F66", "U+1F67",
    "U+1F70", "U+1F71", "U+1F72", "U+1F73", "U+1F74", "U+1F75", "U+1F76", "U+1F77", "U+1F78", "U+1F79", "U+1F7A", "U+1F7B",
    "U+1F7C", "U+1F7D", "U+1F80", "U+1F81", "U+1F82", "U+1F83", "U+1F84", "U+1F85", "U+1F86", "U+1F87", "U+1F88", "U+1F89",
    "U+1F8A", "U+1F8B", "U+1F8C", "U+1F8D", "U+1F8E", "U+1F8F", "U+1F90", "U+1F91", "U+1F92", "U+1F93", "U+1F94", "U+1F95",
    "U+1F96", "U+1F97", "U+1F98", "U+1F99", "U+1F9A", "U+1F9B", "U+1F9C", "U+1F9D", "U+1F9E", "U+1F9F", "U+1FA0", "U+1FA1",
    "U+1FA2", "U+1FA3", "U+1FA4", "U+1FA5", "U+1FA6", "U+1FA7", "U+1FA8", "U+1FA9", "U+1FAA", "U+1FAB", "U+1FAC", "U+1FAD",
    "U+1FAE", "U+1FAF", "U+1FB0", "U+1FB1", "U+1FB2", "U+1FB3", "U+1FB4", "U+1FB6", "U+1FB7", "U+1FBC", "U+1FBE", "U+1FC2",
    "U+1FC3", "U+1FC4", "U+1FC6", "U+1FC7", "U+1FCC", "U+1FD0", "U+1FD1", "U+1FD2", "U+1FD3", "U+1FD6", "U+1FD7", "U+1FE0",
    "U+1FE1", "U+1FE2", "U+1FE3", "U+1FE4", "U+1FE5", "U+1FE6", "U+1FE7", "U+1FF2", "U+1FF3", "U+1FF4", "U+1FF6", "U+1FF7",
    "U+1FFC", "U+214E", "U+2170", "U+2171", "U+2172", "U+2173", "U+2174", "U+2175", "U+2176", "U+2177", "U+2178", "U+2179",
    "U+217A", "U+217B", "U+217C", "U+217D", "U+217E", "U+217F", "U+2184", "U+24D0", "U+24D1", "U+24D2", "U+24D3", "U+24D4",
    "U+24D5", "U+24D6", "U+24D7", "U+24D8", "U+24D9", "U+24DA", "U+24DB", "U+24DC", "U+24DD", "U+24DE", "U+24DF", "U+24E0",
    "U+24E1", "U+24E2", "U+24E3", "U+24E4", "U+24E5", "U+24E6", "U+24E7", "U+24E8", "U+24E9", "U+2C30", "U+2C31", "U+2C32",
    "U+2C33", "U+2C34", "U+2C35", "U+2C36", "U+2C37", "U+2C38", "U+2C39", "U+2C3A", "U+2C3B", "U+2C3C", "U+2C3D", "U+2C3E",
    "U+2C3F", "U+2C40", "U+2C41", "U+2C42", "U+2C43", "U+2C44", "U+2C45", "U+2C46", "U+2C47", "U+2C48", "U+2C49", "U+2C4A",
    "U+2C4B", "U+2C4C", "U+2C4D", "U+2C4E", "U+2C4F", "U+2C50", "U+2C51", "U+2C52", "U+2C53", "U+2C54", "U+2C55", "U+2C56",
    "U+2C57", "U+2C58", "U+2C59", "U+2C5A", "U+2C5B", "U+2C5C", "U+2C5D", "U+2C5E", "U+2C5F", "U+2C61", "U+2C65", "U+2C66",
    "U+2C68", "U+2C6A", "U+2C6C", "U+2C73", "U+2C76", "U+2C81", "U+2C83", "U+2C85", "U+2C87", "U+2C89", "U+2C8B", "U+2C8D",
    "U+2C8F", "U+2C91", "U+2C93", "U+2C95", "U+2C97", "U+2C99", "U+2C9B", "U+2C9D", "U+2C9F", "U+2CA1", "U+2CA3", "U+2CA5",
    "U+2CA7", "U+2CA9", "U+2CAB", "U+2CAD", "U+2CAF", "U+2CB1", "U+2CB3", "U+2CB5", "U+2CB7", "U+2CB9", "U+2CBB", "U+2CBD",
    "U+2CBF", "U+2CC1", "U+2CC3", "U+2CC5", "U+2CC7", "U+2CC9", "U+2CCB", "U+2CCD", "U+2CCF", "U+2CD1", "U+2CD3", "U+2CD5",
    "U+2CD7", "U+2CD9", "U+2CDB", "U+2CDD", "U+2CDF", "U+2CE1", "U+2CE3", "U+2CEC", "U+2CEE", "U+2CF3", "U+2D00", "U+2D01",
    "U+2D02", "U+2D03", "U+2D04", "U+2D05", "U+2D06", "U+2D07", "U+2D08", "U+2D09", "U+2D0A", "U+2D0B", "U+2D0C", "U+2D0D",
    "U+2D0E", "U+2D0F", "U+2D10", "U+2D11", "U+2D12", "U+2D13", "U+2D14", "U+2D15", "U+2D16", "U+2D17", "U+2D18", "U+2D19",
    "U+2D1A", "U+2D1B", "U+2D1C", "U+2D1D", "U+2D1E", "U+2D1F", "U+2D20", "U+2D21", "U+2D22", "U+2D23", "U+2D24", "U+2D25",
    "U+2D27", "U+2D2D", "U+A641", "U+A643", "U+A645", "U+A647", "U+A649", "U+A64B", "U+A64D", "U+A64F", "U+A651", "U+A653",
    "U+A655", "U+A657", "U+A659", "U+A65B", "U+A65D", "U+A65F", "U+A661", "U+A663", "U+A665", "U+A667", "U+A669", "U+A66B",
    "U+A66D", "U+A681", "U+A683", "U+A685", "U+A687", "U+A689", "U+A68B", "U+A68D", "U+A68F", "U+A691", "U+A693", "U+A695",
    "U+A697", "U+A699", "U+A69B", "U+A723", "U+A725", "U+A727", "U+A729", "U+A72B", "U+A72D", "U+A72F", "U+A733", "U+A735",
    "U+A737", "U+A739", "U+A73B", "U+A73D", "U+A73F", "U+A741", "U+A743", "U+A745", "U+A747", "U+A749", "U+A74B", "U+A74D",
    "U+A74F", "U+A751", "U+A753", "U+A755", "U+A757", "U+A759", "U+A75B", "U+A75D", "U+A75F", "U+A761", "U+A763", "U+A765",
    "U+A767", "U+A769", "U+A76B", "U+A76D", "U+A76F", "U+A77A", "U+A77C", "U+A77F", "U+A781", "U+A783", "U+A785", "U+A787",
    "U+A78C", "U+A791", "U+A793", "U+A794", "U+A797", "U+A799", "U+A79B", "U+A79D", "U+A79F", "U+A7A1", "U+A7A3", "U+A7A5",
    "U+A7A7", "U+A7A9", "U+A7B5", "U+A7B7", "U+A7B9", "U+A7BB", "U+A7BD", "U+A7BF", "U+A7C1", "U+A7C3", "U+A7C8", "U+A7CA",
    "U+A7D1", "U+A7D7", "U+A7D9", "U+A7F6", "U+AB53", "U+AB70", "U+AB71", "U+AB72", "U+AB73", "U+AB74", "U+AB75", "U+AB76",
    "U+AB77", "U+AB78", "U+AB79", "U+AB7A", "U+AB7B", "U+AB7C", "U+AB7D", "U+AB7E", "U+AB7F", "U+AB80", "U+AB81", "U+AB82",
    "U+AB83", "U+AB84", "U+AB85", "U+AB86", "U+AB87", "U+AB88", "U+AB89", "U+AB8A", "U+AB8B", "U+AB8C", "U+AB8D", "U+AB8E",
    "U+AB8F", "U+AB90", "U+AB91", "U+AB92", "U+AB93", "U+AB94", "U+AB95", "U+AB96", "U+AB97", "U+AB98", "U+AB99", "U+AB9A",
    "U+AB9B", "U+AB9C", "U+AB9D", "U+AB9E", "U+AB9F", "U+ABA0", "U+ABA1", "U+ABA2", "U+ABA3", "U+ABA4", "U+ABA5", "U+ABA6",
    "U+ABA7", "U+ABA8", "U+ABA9", "U+ABAA", "U+ABAB", "U+ABAC", "U+ABAD", "U+ABAE", "U+ABAF", "U+ABB0", "U+ABB1", "U+ABB2",
    "U+ABB3", "U+ABB4", "U+ABB5", "U+ABB6", "U+ABB7", "U+ABB8", "U+ABB9", "U+ABBA", "U+ABBB", "U+ABBC", "U+ABBD", "U+ABBE",
    "U+ABBF", "U+FB00", "U+FB01", "U+FB02", "U+FB03", "U+FB04", "U+FB05", "U+FB06", "U+FB13", "U+FB14", "U+FB15", "U+FB16",
    "U+FB17", "U+FF41", "U+FF42", "U+FF43", "U+FF44", "U+FF45", "U+FF46", "U+FF47", "U+FF48", "U+FF49", "U+FF4A", "U+FF4B",
    "U+FF4C", "U+FF4D", "U+FF4E", "U+FF4F", "U+FF50", "U+FF51", "U+FF52", "U+FF53", "U+FF54", "U+FF55", "U+FF56", "U+FF57",
    "U+FF58", "U+FF59", "U+FF5A", "U+10428", "U+10429", "U+1042A", "U+1042B", "U+1042C", "U+1042D", "U+1042E", "U+1042F", "U+10430",
    "U+10431", "U+10432", "U+10433", "U+10434", "U+10435", "U+10436", "U+10437", "U+10438", "U+10439", "U+1043A", "U+1043B", "U+1043C",
    "U+1043D", "U+1043E", "U+1043F", "U+10440", "U+10441", "U+10442", "U+10443", "U+10444", "U+10445", "U+10446", "U+10447", "U+10448",
    "U+10449", "U+1044A", "U+1044B", "U+1044C", "U+1044D", "U+1044E", "U+1044F", "U+104D8", "U+104D9", "U+104DA", "U+104DB", "U+104DC",
    "U+104DD", "U+104DE", "U+104DF", "U+104E0", "U+104E1", "U+104E2", "U+104E3", "U+104E4", "U+104E5", "U+104E6", "U+104E7", "U+104E8",
    "U+104E9", "U+104EA", "U+104EB", "U+104EC", "U+104ED", "U+104EE", "U+104EF", "U+104F0", "U+104F1", "U+104F2", "U+104F3", "U+104F4",
    "U+104F5", "U+104F6", "U+104F7", "U+104F8", "U+104F9", "U+104FA", "U+104FB", "U+10597", "U+10598", "U+10599", "U+1059A", "U+1059B",
    "U+1059C", "U+1059D", "U+1059E", "U+1059F", "U+105A0", "U+105A1", "U+105A3", "U+105A4", "U+105A5", "U+105A6", "U+105A7", "U+105A8",
    "U+105A9", "U+105AA", "U+105AB", "U+105AC", "U+105AD", "U+105AE", "U+105AF", "U+105B0", "U+105B1", "U+105B3", "U+105B4", "U+105B5",
    "U+105B6", "U+105B7", "U+105B8", "U+105B9", "U+105BB", "U+105BC", "U+10CC0", "U+10CC1", "U+10CC2", "U+10CC3", "U+10CC4", "U+10CC5",
    "U+10CC6", "U+10CC7", "U+10CC8", "U+10CC9", "U+10CCA", "U+10CCB", "U+10CCC", "U+10CCD", "U+10CCE", "U+10CCF", "U+10CD0", "U+10CD1",
    "U+10CD2", "U+10CD3", "U+10CD4", "U+10CD5", "U+10CD6", "U+10CD7", "U+10CD8", "U+10CD9", "U+10CDA", "U+10CDB", "U+10CDC", "U+10CDD",
    "U+10CDE", "U+10CDF", "U+10CE0", "U+10CE1", "U+10CE2", "U+10CE3", "U+10CE4", "U+10CE5", "U+10CE6", "U+10CE7", "U+10CE8", "U+10CE9",
    "U+10CEA", "U+10CEB", "U+10CEC", "U+10CED", "U+10CEE", "U+10CEF", "U+10CF0", "U+10CF1", "U+10CF2", "U+118C0", "U+118C1", "U+118C2",
    "U+118C3", "U+118C4", "U+118C5", "U+118C6", "U+118C7", "U+118C8", "U+118C9", "U+118CA", "U+118CB", "U+118CC", "U+118CD", "U+118CE",
    "U+118CF", "U+118D0", "U+118D1", "U+118D2", "U+118D3", "U+118D4", "U+118D5", "U+118D6", "U+118D7", "U+118D8", "U+118D9", "U+118DA",
    "U+118DB", "U+118DC", "U+118DD", "U+118DE", "U+118DF", "U+16E60", "U+16E61", "U+16E62", "U+16E63", "U+16E64", "U+16E65", "U+16E66",
    "U+16E67", "U+16E68", "U+16E69", "U+16E6A", "U+16E6B", "U+16E6C", "U+16E6D", "U+16E6E", "U+16E6F", "U+16E70", "U+16E71", "U+16E72",
    "U+16E73", "U+16E74", "U+16E75", "U+16E76", "U+16E77", "U+16E78", "U+16E79", "U+16E7A", "U+16E7B", "U+16E7C", "U+16E7D", "U+16E7E",
    "U+16E7F", "U+1E922", "U+1E923", "U+1E924", "U+1E925", "U+1E926", "U+1E927", "U+1E928", "U+1E929", "U+1E92A", "U+1E92B", "U+1E92C",
    "U+1E92D", "U+1E92E", "U+1E92F", "U+1E930", "U+1E931", "U+1E932", "U+1E933", "U+1E934", "U+1E935", "U+1E936", "U+1E937", "U+1E938",
    "U+1E939", "U+1E93A", "U+1E93B", "U+1E93C", "U+1E93D", "U+1E93E", "U+1E93F", "U+1E940", "U+1E941", "U+1E942", "U+1E943" >>
OtherUpper == <<
    <<"U+039C">>, <<"S","S">>, <<"À">>, <<"Á">>, <<"Â">>, <<"Ã">>,
    <<"Ä">>, <<"Å">>, <<"Æ">>, <<"Ç">>, <<"È">>, <<"É">>,
    <<"Ê">>, <<"Ë">>, <<"Ì">>, <<"Í">>, <<"Î">>, <<"Ï">>,
    <<"Ð">>, <<"Ñ">>, <<"Ò">>, <<"Ó">>, <<"Ô">>, <<"Õ">>,
    <<"Ö">>, <<"Ø">>, <<"Ù">>, <<"Ú">>, <<"Û">>, <<"Ü">>,
    <<"Ý">>, <<"Þ">>, <<"U+0178">>, <<"U+0100">>, <<"U+0102">>, <<"U+0104">>,
    <<"U+0106">>, <<"U+0108">>, <<"U+010A">>, <<"U+010C">>, <<"U+010E">>, <<"U+0110">>,
    <<"U+0112">>, <<"U+0114">>, <<"U+0116">>, <<"U+0118">>, <<"U+011A">>, <<"U+011C">>,
    <<"U+011E">>, <<"U+0120">>, <<"U+0122">>, <<"U+0124">>, <<"U+0126">>, <<"U+0128">>,
    <<"U+012A">>, <<"U+012C">>, <<"U+012E">>, <<"I">>, <<"U+0132">>, <<"U+0134">>,
    <<"U+0136">>, <<"U+0139">>, <<"U+013B">>, <<"U+013D">>, <<"U+013F">>, <<"U+0141">>,
    <<"U+0143">>, <<"U+0145">>, <<"U+0147">>, <<"U+02BC","N">>, <<"U+014A">>, <<"U+014C">>,
    <<"U+014E">>, <<"U+0150">>, <<"U+0152">>, <<"U+0154">>, <<"U+0156">>, <<"U+0158">>,
    <<"U+015A">>, <<"U+015C">>, <<"U+015E">>, <<"U+0160">>, <<"U+0162">>, <<"U+0164">>,
    <<"U+0166">>, <<"U+0168">>, <<"U+016A">>, <<"U+016C">>, <<"U+016E">>, <<"U+0170">>,
    <<"U+0172">>, <<"U+0174">>, <<"U+0176">>, <<"U+0179">>, <<"U+017B">>, <<"U+017D">>,
    <<"S">>, <<"U+0243">>, <<"U+0182">>, <<"U+0184">>, <<"U+0187">>, <<"U+018B">>,
    <<"U+0191">>, <<"U+01F6">>, <<"U+0198">>, <<"U+023D">>, <<"U+0220">>, <<"U+01A0">>,
    <<"U+01A2">>, <<"U+01A4">>, <<"U+01A7">>, <<"U+01AC">>, <<"U+01AF">>, <<"U+01B3">>,
    <<"U+01B5">>, <<"U+01B8">>, <<"U+01BC">>, <<"U+01F7">>, <<"U+01C4">>, <<"U+01C4">>,
    <<"U+01C7">>, <<"U+01C7">>, <<"U+01CA">>, <<"U+01CA">>, <<"U+01CD">>, <<"U+01CF">>,
    <<"U+01D1">>, <<"U+01D3">>, <<"U+01D5">>, <<"U+01D7">>, <<"U+01D9">>, <<"U+01DB">>,
    <<"U+018E">>, <<"U+01DE">>, <<"U+01E0">>, <<"U+01E2">>, <<"U+01E4">>, <<"U+01E6">>,
    <<"U+01E8">>, <<"U+01EA">>, <<"U+01EC">>, <<"U+01EE">>, <<"J","U+030C">>, <<"U+01F1">>,
    <<"U+01F1">>, <<"U+01F4">>, <<"U+01F8">>, <<"U+01FA">>, <<"U+01FC">>, <<"U+01FE">>,
    <<"U+0200">>, <<"U+0202">>, <<"U+0204">>, <<"U+0206">>, <<"U+0208">>, <<"U+020A">>,
    <<"U+020C">>, <<"U+020E">>, <<"U+0210">>, <<"U+0212">>, <<"U+0214">>, <<"U+0216">>,
    <<"U+0218">>, <<"U+021A">>, <<"U+021C">>, <<"U+021E">>, <<"U+0222">>, <<"U+0224">>,
    <<"U+0226">>, <<"U+0228">>, <<"U+022A">>, <<"U+022C">>, <<"U+022E">>, <<"U+0230">>,
    <<"U+0232">>, <<"U+023B">>, <<"U+2C7E">>, <<"U+2C7F">>, <<"U+0241">>, <<"U+0246">>,
    <<"U+0248">>, <<"U+024A">>, <<"U+024C">>, <<"U+024E">>, <<"U+2C6F">>, <<"U+2C6D">>,
    <<"U+2C70">>, <<"U+0181">>, <<"U+0186">>, <<"U+0189">>, <<"U+018A">>, <<"U+018F">>,
    <<"U+0190">>, <<"U+A7AB">>, <<"U+0193">>, <<"U+A7AC">>, <<"U+0194">>, <<"U+A78D">>,
    <<"U+A7AA">>, <<"U+0197">>, <<"U+0196">>, <<"U+A7AE">>, <<"U+2C62">>, <<"U+A7AD">>,
    <<"U+019C">>, <<"U+2C6E">>, <<"U+019D">>, <<"U+019F">>, <<"U+2C64">>, <<"U+01A6">>,
    <<"U+A7C5">>, <<"U+01A9">>, <<"U+A7B1">>, <<"U+01AE">>, <<"U+0244">>, <<"U+01B1">>,
    <<"U+01B2">>, <<"U+0245">>, <<"U+01B7">>, <<"U+A7B2">>, <<"U+A7B0">>, <<"U+0399">>,
    <<"U+0370">>, <<"U+0372">>, <<"U+0376">>, <<"U+03FD">>, <<"U+03FE">>, <<"U+03FF">>,
    <<"U+0399","U+0308","U+0301">>, <<"U+0386">>, <<"U+0388">>, <<"U+0389">>, <<"U+038A">>, <<"U+03A5","U+0308","U+0301">>,
    <<"U+0391">>, <<"U+0392">>, <<"U+0393">>, <<"U+0394">>, <<"U+0395">>, <<"U+0396">>,
    <<"U+0397">>, <<"U+0398">>, <<"U+0399">>, <<"U+039A">>, <<"U+039B">>, <<"U+039C">>,
    <<"U+039D">>, <<"U+039E">>, <<"U+039F">>, <<"U+03A0">>, <<"U+03A1">>, <<"U+03A3">>,
    <<"U+03A3">>, <<"U+03A4">>, <<"U+03A5">>, <<"U+03A6">>, <<"U+03A7">>, <<"U+03A8">>,
    <<"U+03A9">>, <<"U+03AA">>, <<"U+03AB">>, <<"U+038C">>, <<"U+038E">>, <<"U+038F">>,
    <<"U+0392">>, <<"U+0398">>, <<"U+03A6">>, <<"U+03A0">>, <<"U+03CF">>, <<"U+03D8">>,
    <<"U+03DA">>, <<"U+03DC">>, <<"U+03DE">>, <<"U+03E0">>, <<"U+03E2">>, <<"U+03E4">>,
    <<"U+03E6">>, <<"U+03E8">>, <<"U+03EA">>, <<"U+03EC">>, <<"U+03EE">>, <<"U+039A">>,
    <<"U+03A1">>, <<"U+03F9">>, <<"U+037F">>, <<"U+0395">>, <<"U+03F7">>, <<"U+03FA">>,
    <<"U+0410">>, <<"U+0411">>, <<"U+0412">>, <<"U+0413">>, <<"U+0414">>, <<"U+0415">>,
    <<"U+0416">>, <<"U+0417">>, <<"U+0418">>, <<"U+0419">>, <<"U+041A">>, <<"U+041B">>,
    <<"U+041C">>, <<"U+041D">>, <<"U+041E">>, <<"U+041F">>, <<"U+0420">>, <<"U+0421">>,
    <<"U+0422">>, <<"U+0423">>, <<"U+0424">>, <<"U+0425">>, <<"U+0426">>, <<"U+0427">>,
    <<"U+0428">>, <<"U+0429">>, <<"U+042A">>, <<"U+042B">>, <<"U+042C">>, <<"U+042D">>,
    <<"U+042E">>, <<"U+042F">>, <<"U+0400">>, <<"U+0401">>, <<"U+0402">>, <<"U+0403">>,
    <<"U+0404">>, <<"U+0405">>, <<"U+0406">>, <<"U+0407">>, <<"U+0408">>, <<"U+0409">>,
    <<"U+040A">>, <<"U+040B">>, <<"U+040C">>, <<"U+040D">>, <<"U+040E">>, <<"U+040F">>,
    <<"U+0460">>, <<"U+0462">>, <<"U+0464">>, <<"U+0466">>, <<"U+0468">>, <<"U+046A">>,
    <<"U+046C">>, <<"U+046E">>, <<"U+0470">>, <<"U+0472">>, <<"U+0474">>, <<"U+0476">>,
    <<"U+0478">>, <<"U+047A">>, <<"U+047C">>, <<"U+047E">>, <<"U+0480">>, <<"U+048A">>,
    <<"U+048C">>, <<"U+048E">>, <<"U+0490">>, <<"U+0492">>, <<"U+0494">>, <<"U+0496">>,
    <<"U+0498">>, <<"U+049A">>, <<"U+049C">>, <<"U+049E">>, <<"U+04A0">>, <<"U+04A2">>,
    <<"U+04A4">>, <<"U+04A6">>, <<"U+04A8">>, <<"U+04AA">>, <<"U+04AC">>, <<"U+04AE">>,
    <<"U+04B0">>, <<"U+04B2">>, <<"U+04B4">>, <<"U+04B6">>, <<"U+04B8">>, <<"U+04BA">>,
    <<"U+04BC">>, <<"U+04BE">>, <<"U+04C1">>, <<"U+04C3">>, <<"U+04C5">>, <<"U+04C7">>,
    <<"U+04C9">>, <<"U+04CB">>, <<"U+04CD">>, <<"U+04C0">>, <<"U+04D0">>, <<"U+04D2">>,
    <<"U+04D4">>, <<"U+04D6">>, <<"U+04D8">>, <<"U+04DA">>, <<"U+04DC">>, <<"U+04DE">>,
    <<"U+04E0">>, <<"U+04E2">>, <<"U+04E4">>, <<"U+04E6">>, <<"U+04E8">>, <<"U+04EA">>,
    <<"U+04EC">>, <<"U+04EE">>, <<"U+04F0">>, <<"U+04F2">>, <<"U+04F4">>, <<"U+04F6">>,
    <<"U+04F8">>, <<"U+04FA">>, <<"U+04FC">>, <<"U+04FE">>, <<"U+0500">>, <<"U+0502">>,
    <<"U+0504">>, <<"U+0506">>, <<"U+0508">>, <<"U+050A">>, <<"U+050C">>, <<"U+050E">>,
    <<"U+0510">>, <<"U+0512">>, <<"U+0514">>, <<"U+0516">>, <<"U+0518">>, <<"U+051A">>,
    <<"U+051C">>, <<"U+051E">>, <<"U+0520">>, <<"U+0522">>, <<"U+0524">>, <<"U+0526">>,
    <<"U+0528">>, <<"U+052A">>, <<"U+052C">>, <<"U+052E">>, <<"U+0531">>, <<"U+0532">>,
    <<"U+0533">>, <<"U+0534">>, <<"U+0535">>, <<"U+0536">>, <<"U+0537">>, <<"U+0538">>,
    <<"U+0539">>, <<"U+053A">>, <<"U+053B">>, <<"U+053C">>, <<"U+053D">>, <<"U+053E">>,
    <<"U+053F">>, <<"U+0540">>, <<"U+0541">>, <<"U+0542">>, <<"U+0543">>, <<"U+0544">>,
    <<"U+0545">>, <<"U+0546">>, <<"U+0547">>, <<"U+0548">>, <<"U+0549">>, <<"U+054A">>,
    <<"U+054B">>, <<"U+054C">>, <<"U+054D">>, <<"U+054E">>, <<"U+054F">>, <<"U+0550">>,
    <<"U+0551">>, <<"U+0552">>, <<"U+0553">>, <<"U+0554">>, <<"U+0555">>, <<"U+0556">>,
    <<"U+0535","U+0552">>, <<"U+1C90">>, <<"U+1C91">>, <<"U+1C92">>, <<"U+1C93">>, <<"U+1C94">>,
    <<"U+1C95">>, <<"U+1C96">>, <<"U+1C97">>, <<"U+1C98">>, <<"U+1C99">>, <<"U+1C9A">>,
    <<"U+1C9B">>, <<"U+1C9C">>, <<"U+1C9D">>, <<"U+1C9E">>, <<"U+1C9F">>, <<"U+1CA0">>,
    <<"U+1CA1">>, <<"U+1CA2">>, <<"U+1CA3">>, <<"U+1CA4">>, <<"U+1CA5">>, <<"U+1CA6">>,
    <<"U+1CA7">>, <<"U+1CA8">>, <<"U+1CA9">>, <<"U+1CAA">>, <<"U+1CAB">>, <<"U+1CAC">>,
    <<"U+1CAD">>, <<"U+1CAE">>, <<"U+1CAF">>, <<"U+1CB0">>, <<"U+1CB1">>, <<"U+1CB2">>,
    <<"U+1CB3">>, <<"U+1CB4">>, <<"U+1CB5">>, <<"U+1CB6">>, <<"U+1CB7">>, <<"U+1CB8">>,
    <<"U+1CB9">>, <<"U+1CBA">>, <<"U+1CBD">>, <<"U+1CBE">>, <<"U+1CBF">>, <<"U+13F0">>,
    <<"U+13F1">>, <<"U+13F2">>, <<"U+13F3">>, <<"U+13F4">>, <<"U+13F5">>, <<"U+0412">>,
    <<"U+0414">>, <<"U+041E">>, <<"U+0421">>, <<"U+0422">>, <<"U+0422">>, <<"U+042A">>,
    <<"U+0462">>, <<"U+A64A">>, <<"U+A77D">>, <<"U+2C63">>, <<"U+A7C6">>, <<"U+1E00">>,
    <<"U+1E02">>, <<"U+1E04">>, <<"U+1E06">>, <<"U+1E08">>, <<"U+1E0A">>, <<"U+1E0C">>,
    <<"U+1E0E">>, <<"U+1E10">>, <<"U+1E12">>, <<"U+1E14">>, <<"U+1E16">>, <<"U+1E18">>,
    <<"U+1E1A">>, <<"U+1E1C">>, <<"U+1E1E">>, <<"U+1E20">>, <<"U+1E22">>, <<"U+1E24">>,
    <<"U+1E26">>, <<"U+1E28">>, <<"U+1E2A">>, <<"U+1E2C">>, <<"U+1E2E">>, <<"U+1E30">>,
    <<"U+1E32">>, <<"U+1E34">>, <<"U+1E36">>, <<"U+1E38">>, <<"U+1E3A">>, <<"U+1E3C">>,
    <<"U+1E3E">>, <<"U+1E40">>, <<"U+1E42">>, <<"U+1E44">>, <<"U+1E46">>, <<"U+1E48">>,
    <<"U+1E4A">>, <<"U+1E4C">>, <<"U+1E4E">>, <<"U+1E50">>, <<"U+1E52">>, <<"U+1E54">>,
    <<"U+1E56">>, <<"U+1E58">>, <<"U+1E5A">>, <<"U+1E5C">>, <<"U+1E5E">>, <<"U+1E60">>,
    <<"U+1E62">>, <<"U+1E64">>, <<"U+1E66">>, <<"U+1E68">>, <<"U+1E6A">>, <<"U+1E6C">>,
    <<"U+1E6E">>, <<"U+1E70">>, <<"U+1E72">>, <<"U+1E74">>, <<"U+1E76">>, <<"U+1E78">>,
    <<"U+1E7A">>, <<"U+1E7C">>, <<"U+1E7E">>, <<"U+1E80">>, <<"U+1E82">>, <<"U+1E84">>,
    <<"U+1E86">>, <<"U+1E88">>, <<"U+1E8A">>, <<"U+1E8C">>, <<"U+1E8E">>, <<"U+1E90">>,
    <<"U+1E92">>, <<"U+1E94">>, <<"H","U+0331">>, <<"T","U+0308">>, <<"W","U+030A">>, <<"Y","U+030A">>,
    <<"A","U+02BE">>, <<"U+1E60">>, <<"U+1EA0">>, <<"U+1EA2">>, <<"U+1EA4">>, <<"U+1EA6">>,
    <<"U+1EA8">>, <<"U+1EAA">>, <<"U+1EAC">>, <<"U+1EAE">>, <<"U+1EB0">>, <<"U+1EB2">>,
    <<"U+1EB4">>, <<"U+1EB6">>, <<"U+1EB8">>, <<"U+1EBA">>, <<"U+1EBC">>, <<"U+1EBE">>,
    <<"U+1EC0">>, <<"U+1EC2">>, <<"U+1EC4">>, <<"U+1EC6">>, <<"U+1EC8">>, <<"U+1ECA">>,
    <<"U+1ECC">>, <<"U+1ECE">>, <<"U+1ED0">>, <<"U+1ED2">>, <<"U+1ED4">>, <<"U+1ED6">>,
    <<"U+1ED8">>, <<"U+1EDA">>, <<"U+1EDC">>, <<"U+1EDE">>, <<"U+1EE0">>, <<"U+1EE2">>,
    <<"U+1EE4">>, <<"U+1EE6">>, <<"U+1EE8">>, <<"U+1EEA">>, <<"U+1EEC">>, <<"U+1EEE">>,
    <<"U+1EF0">>, <<"U+1EF2">>, <<"U+1EF4">>, <<"U+1EF6">>, <<"U+1EF8">>, <<"U+1EFA">>,
    <<"U+1EFC">>, <<"U+1EFE">>, <<"U+1F08">>, <<"U+1F09">>, <<"U+1F0A">>, <<"U+1F0B">>,
    <<"U+1F0C">>, <<"U+1F0D">>, <<"U+1F0E">>, <<"U+1F0F">>, <<"U+1F18">>, <<"U+1F19">>,
    <<"U+1F1A">>, <<"U+1F1B">>, <<"U+1F1C">>, <<"U+1F1D">>, <<"U+1F28">>, <<"U+1F29">>,
    <<"U+1F2A">>, <<"U+1F2B">>, <<"U+1F2C">>, <<"U+1F2D">>, <<"U+1F2E">>, <<"U+1F2F">>,
    <<"U+1F38">>, <<"U+1F39">>, <<"U+1F3A">>, <<"U+1F3B">>, <<"U+1F3C">>, <<"U+1F3D">>,
    <<"U+1F3E">>, <<"U+1F3F">>, <<"U+1F48">>, <<"U+1F49">>, <<"U+1F4A">>, <<"U+1F4B">>,
    <<"U+1F4C">>, <<"U+1F4D">>, <<"U+03A5","U+0313">>, <<"U+1F59">>, <<"U+03A5","U+0313","U+0300">>, <<"U+1F5B">>,
    <<"U+03A5","U+0313","U+0301">>, <<"U+1F5D">>, <<"U+03A5","U+0313","U+0342">>, <<"U+1F5F">>, <<"U+1F68">>, <<"U+1F69">>,
    <<"U+1F6A">>, <<"U+1F6B">>, <<"U+1F6C">>, <<"U+1F6D">>, <<"U+1F6E">>, <<"U+1F6F">>,
    <<"U+1FBA">>, <<"U+1FBB">>, <<"U+1FC8">>, <<"U+1FC9">>, <<"U+1FCA">>, <<"U+1FCB">>,
    <<"U+1FDA">>, <<"U+1FDB">>, <<"U+1FF8">>, <<"U+1FF9">>, <<"U+1FEA">>, <<"U+1FEB">>,
    <<"U+1FFA">>, <<"U+1FFB">>, <<"U+1F08","U+0399">>, <<"U+1F09","U+0399">>, <<"U+1F0A","U+0399">>, <<"U+1F0B","U+0399">>,
    <<"U+1F0C","U+0399">>, <<"U+1F0D","U+0399">>, <<"U+1F0E","U+0399">>, <<"U+1F0F","U+0399">>, <<"U+1F08","U+0399">>, <<"U+1F09","U+0399">>,
    <<"U+1F0A","U+0399">>, <<"U+1F0B","U+0399">>, <<"U+1F0C","U+0399">>, <<"U+1F0D","U+0399">>, <<"U+1F0E","U+0399">>, <<"U+1F0F","U+0399">>,
    <<"U+1F28","U+0399">>, <<"U+1F29","U+0399">>, <<"U+1F2A","U+0399">>, <<"U+1F2B","U+0399">>, <<"U+1F2C","U+0399">>, <<"U+1F2D","U+0399">>,
    <<"U+1F2E","U+0399">>, <<"U+1F2F","U+0399">>, <<"U+1F28","U+0399">>, <<"U+1F29","U+0399">>, <<"U+1F2A","U+0399">>, <<"U+1F2B","U+0399">>,
    <<"U+1F2C","U+0399">>, <<"U+1F2D","U+0399">>, <<"U+1F2E","U+0399">>, <<"U+1F2F","U+0399">>, <<"U+1F68","U+0399">>, <<"U+1F69","U+0399">>,
    <<"U+1F6A","U+0399">>, <<"U+1F6B","U+0399">>, <<"U+1F6C","U+0399">>, <<"U+1F6D","U+0399">>, <<"U+1F6E","U+0399">>, <<"U+1F6F","U+0399">>,
    <<"U+1F68","U+0399">>, <<"U+1F69","U+0399">>, <<"U+1F6A","U+0399">>, <<"U+1F6B","U+0399">>, <<"U+1F6C","U+0399">>, <<"U+1F6D","U+0399">>,
    <<"U+1F6E","U+0399">>, <<"U+1F6F","U+0399">>, <<"U+1FB8">>, <<"U+1FB9">>, <<"U+1FBA","U+0399">>, <<"U+0391","U+0399">>,
    <<"U+0386","U+0399">>, <<"U+0391","U+0342">>, <<"U+0391","U+0342","U+0399">>, <<"U+0391","U+0399">>, <<"U+0399">>, <<"U+1FCA","U+0399">>,
    <<"U+0397","U+0399">>, <<"U+0389","U+0399">>, <<"U+0397","U+0342">>, <<"U+0397","U+0342","U+0399">>, <<"U+0397","U+0399">>, <<"U+1FD8">>,
    <<"U+1FD9">>, <<"U+0399","U+0308","U+0300">>, <<"U+0399","U+0308","U+0301">>, <<"U+0399","U+0342">>, <<"U+0399","U+0308","U+0342">>, <<"U+1FE8">>,
    <<"U+1FE9">>, <<"U+03A5","U+0308","U+0300">>, <<"U+03A5","U+0308","U+0301">>, <<"U+03A1","U+0313">>, <<"U+1FEC">>, <<"U+03A5","U+0342">>,
    <<"U+03A5","U+0308","U+0342">>, <<"U+1FFA","U+0399">>, <<"U+03A9","U+0399">>, <<"U+038F","U+0399">>, <<"U+03A9","U+0342">>, <<"U+03A9","U+0342","U+0399">>,
    <<"U+03A9","U+0399">>, <<"U+2132">>, <<"U+2160">>, <<"U+2161">>, <<"U+2162">>, <<"U+2163">>,
    <<"U+2164">>, <<"U+2165">>, <<"U+2166">>, <<"U+2167">>, <<"U+2168">>, <<"U+2169">>,
    <<"U+216A">>, <<"U+216B">>, <<"U+216C">>, <<"U+216D">>, <<"U+216E">>, <<"U+216F">>,
    <<"U+2183">>, <<"U+24B6">>, <<"U+24B7">>, <<"U+24B8">>, <<"U+24B9">>, <<"U+24BA">>,
    <<"U+24BB">>, <<"U+24BC">>, <<"U+24BD">>, <<"U+24BE">>, <<"U+24BF">>, <<"U+24C0">>,
    <<"U+24C1">>, <<"U+24C2">>, <<"U+24C3">>, <<"U+24C4">>, <<"U+24C5">>, <<"U+24C6">>,
    <<"U+24C7">>, <<"U+24C8">>, <<"U+24C9">>, <<"U+24CA">>, <<"U+24CB">>, <<"U+24CC">>,
    <<"U+24CD">>, <<"U+24CE">>, <<"U+24CF">>, <<"U+2C00">>, <<"U+2C01">>, <<"U+2C02">>,
    <<"U+2C03">>, <<"U+2C04">>, <<"U+2C05">>, <<"U+2C06">>, <<"U+2C07">>, <<"U+2C08">>,
    <<"U+2C09">>, <<"U+2C0A">>, <<"U+2C0B">>, <<"U+2C0C">>, <<"U+2C0D">>, <<"U+2C0E">>,
    <<"U+2C0F">>, <<"U+2C10">>, <<"U+2C11">>, <<"U+2C12">>, <<"U+2C13">>, <<"U+2C14">>,
    <<"U+2C15">>, <<"U+2C16">>, <<"U+2C17">>, <<"U+2C18">>, <<"U+2C19">>, <<"U+2C1A">>,
    <<"U+2C1B">>, <<"U+2C1C">>, <<"U+2C1D">>, <<"U+2C1E">>, <<"U+2C1F">>, <<"U+2C20">>,
    <<"U+2C21">>, <<"U+2C22">>, <<"U+2C23">>, <<"U+2C24">>, <<"U+2C25">>, <<"U+2C26">>,
    <<"U+2C27">>, <<"U+2C28">>, <<"U+2C29">>, <<"U+2C2A">>, <<"U+2C2B">>, <<"U+2C2C">>,
    <<"U+2C2D">>, <<"U+2C2E">>, <<"U+2C2F">>, <<"U+2C60">>, <<"U+023A">>, <<"U+023E">>,
    <<"U+2C67">>, <<"U+2C69">>, <<"U+2C6B">>, <<"U+2C72">>, <<"U+2C75">>, <<"U+2C80">>,
    <<"U+2C82">>, <<"U+2C84">>, <<"U+2C86">>, <<"U+2C88">>, <<"U+2C8A">>, <<"U+2C8C">>,
    <<"U+2C8E">>, <<"U+2C90">>, <<"U+2C92">>, <<"U+2C94">>, <<"U+2C96">>, <<"U+2C98">>,
    <<"U+2C9A">>, <<"U+2C9C">>, <<"U+2C9E">>, <<"U+2CA0">>, <<"U+2CA2">>, <<"U+2CA4">>,
    <<"U+2CA6">>, <<"U+2CA8">>, <<"U+2CAA">>, <<"U+2CAC">>, <<"U+2CAE">>, <<"U+2CB0">>,
    <<"U+2CB2">>, <<"U+2CB4">>, <<"U+2CB6">>, <<"U+2CB8">>, <<"U+2CBA">>, <<"U+2CBC">>,
    <<"U+2CBE">>, <<"U+2CC0">>, <<"U+2CC2">>, <<"U+2CC4">>, <<"U+2CC6">>, <<"U+2CC8">>,
    <<"U+2CCA">>, <<"U+2CCC">>, <<"U+2CCE">>, <<"U+2CD0">>, <<"U+2CD2">>, <<"U+2CD4">>,
    <<"U+2CD6">>, <<"U+2CD8">>, <<"U+2CDA">>, <<"U+2CDC">>, <<"U+2CDE">>, <<"U+2CE0">>,
    <<"U+2CE2">>, <<"U+2CEB">>, <<"U+2CED">>, <<"U+2CF2">>, <<"U+10A0">>, <<"U+10A1">>,
    <<"U+10A2">>, <<"U+10A3">>, <<"U+10A4">>, <<"U+10A5">>, <<"U+10A6">>, <<"U+10A7">>,
    <<"U+10A8">>, <<"U+10A9">>, <<"U+10AA">>, <<"U+10AB">>, <<"U+10AC">>, <<"U+10AD">>,
    <<"U+10AE">>, <<"U+10AF">>, <<"U+10B0">>, <<"U+10B1">>, <<"U+10B2">>, <<"U+10B3">>,
    <<"U+10B4">>, <<"U+10B5">>, <<"U+10B6">>, <<"U+10B7">>, <<"U+10B8">>, <<"U+10B9">>,
    <<"U+10BA">>, <<"U+10BB">>, <<"U+10BC">>, <<"U+10BD">>, <<"U+10BE">>, <<"U+10BF">>,
    <<"U+10C0">>, <<"U+10C1">>, <<"U+10C2">>, <<"U+10C3">>, <<"U+10C4">>, <<"U+10C5">>,
    <<"U+10C7">>, <<"U+10CD">>, <<"U+A640">>, <<"U+A642">>, <<"U+A644">>, <<"U+A646">>,
    <<"U+A648">>, <<"U+A64A">>, <<"U+A64C">>, <<"U+A64E">>, <<"U+A650">>, <<"U+A652">>,
    <<"U+A654">>, <<"U+A656">>, <<"U+A658">>, <<"U+A65A">>, <<"U+A65C">>, <<"U+A65E">>,
    <<"U+A660">>, <<"U+A662">>, <<"U+A664">>, <<"U+A666">>, <<"U+A668">>, <<"U+A66A">>,
    <<"U+A66C">>, <<"U+A680">>, <<"U+A682">>, <<"U+A684">>, <<"U+A686">>, <<"U+A688">>,
    <<"U+A68A">>, <<"U+A68C">>, <<"U+A68E">>, <<"U+A690">>, <<"U+A692">>, <<"U+A694">>,
    <<"U+A696">>, <<"U+A698">>, <<"U+A69A">>, <<"U+A722">>, <<"U+A724">>, <<"U+A726">>,
    <<"U+A728">>, <<"U+A72A">>, <<"U+A72C">>, <<"U+A72E">>, <<"U+A732">>, <<"U+A734">>,
    <<"U+A736">>, <<"U+A738">>, <<"U+A73A">>, <<"U+A73C">>, <<"U+A73E">>, <<"U+A740">>,
    <<"U+A742">>, <<"U+A744">>, <<"U+A746">>, <<"U+A748">>, <<"U+A74A">>, <<"U+A74C">>,
    <<"U+A74E">>, <<"U+A750">>, <<"U+A752">>, <<"U+A754">>, <<"U+A756">>, <<"U+A758">>,
    <<"U+A75A">>, <<"U+A75C">>, <<"U+A75E">>, <<"U+A760">>, <<"U+A762">>, <<"U+A764">>,
    <<"U+A766">>, <<"U+A768">>, <<"U+A76A">>, <<"U+A76C">>, <<"U+A76E">>, <<"U+A779">>,
    <<"U+A77B">>, <<"U+A77E">>, <<"U+A780">>, <<"U+A782">>, <<"U+A784">>, <<"U+A786">>,
    <<"U+A78B">>, <<"U+A790">>, <<"U+A792">>, <<"U+A7C4">>, <<"U+A796">>, <<"U+A798">>,
    <<"U+A79A">>, <<"U+A79C">>, <<"U+A79E">>, <<"U+A7A0">>, <<"U+A7A2">>, <<"U+A7A4">>,
    <<"U+A7A6">>, <<"U+A7A8">>, <<"U+A7B4">>, <<"U+A7B6">>, <<"U+A7B8">>, <<"U+A7BA">>,
    <<"U+A7BC">>, <<"U+A7BE">>, <<"U+A7C0">>, <<"U+A7C2">>, <<"U+A7C7">>, <<"U+A7C9">>,
    <<"U+A7D0">>, <<"U+A7D6">>, <<"U+A7D8">>, <<"U+A7F5">>, <<"U+A7B3">>, <<"U+13A0">>,
    <<"U+13A1">>, <<"U+13A2">>, <<"U+13A3">>, <<"U+13A4">>, <<"U+13A5">>, <<"U+13A6">>,
    <<"U+13A7">>, <<"U+13A8">>, <<"U+13A9">>, <<"U+13AA">>, <<"U+13AB">>, <<"U+13AC">>,
    <<"U+13AD">>, <<"U+13AE">>, <<"U+13AF">>, <<"U+13B0">>, <<"U+13B1">>, <<"U+13B2">>,
    <<"U+13B3">>, <<"U+13B4">>, <<"U+13B5">>, <<"U+13B6">>, <<"U+13B7">>, <<"U+13B8">>,
    <<"U+13B9">>, <<"U+13BA">>, <<"U+13BB">>, <<"U+13BC">>, <<"U+13BD">>, <<"U+13BE">>,
    <<"U+13BF">>, <<"U+13C0">>, <<"U+13C1">>, <<"U+13C2">>, <<"U+13C3">>, <<"U+13C4">>,
    <<"U+13C5">>, <<"U+13C6">>, <<"U+13C7">>, <<"U+13C8">>, <<"U+13C9">>, <<"U+13CA">>,
    <<"U+13CB">>, <<"U+13CC">>, <<"U+13CD">>, <<"U+13CE">>, <<"U+13CF">>, <<"U+13D0">>,
    <<"U+13D1">>, <<"U+13D2">>, <<"U+13D3">>, <<"U+13D4">>, <<"U+13D5">>, <<"U+13D6">>,
    <<"U+13D7">>, <<"U+13D8">>, <<"U+13D9">>, <<"U+13DA">>, <<"U+13DB">>, <<"U+13DC">>,
    <<"U+13DD">>, <<"U+13DE">>, <<"U+13DF">>, <<"U+13E0">>, <<"U+13E1">>, <<"U+13E2">>,
    <<"U+13E3">>, <<"U+13E4">>, <<"U+13E5">>, <<"U+13E6">>, <<"U+13E7">>, <<"U+13E8">>,
    <<"U+13E9">>, <<"U+13EA">>, <<"U+13EB">>, <<"U+13EC">>, <<"U+13ED">>, <<"U+13EE">>,
    <<"U+13EF">>, <<"F","F">>, <<"F","I">>, <<"F","L">>, <<"F","F","I">>, <<"F","F","L">>,
    <<"S","T">>, <<"S","T">>, <<"U+0544","U+0546">>, <<"U+0544","U+0535">>, <<"U+0544","U+053B">>, <<"U+054E","U+0546">>,
    <<"U+0544","U+053D">>, <<"U+FF21">>, <<"U+FF22">>, <<"U+FF23">>, <<"U+FF24">>, <<"U+FF25">>,
    <<"U+FF26">>, <<"U+FF27">>, <<"U+FF28">>, <<"U+FF29">>, <<"U+FF2A">>, <<"U+FF2B">>,
    <<"U+FF2C">>, <<"U+FF2D">>, <<"U+FF2E">>, <<"U+FF2F">>, <<"U+FF30">>, <<"U+FF31">>,
    <<"U+FF32">>, <<"U+FF33">>, <<"U+FF34">>, <<"U+FF35">>, <<"U+FF36">>, <<"U+FF37">>,
    <<"U+FF38">>, <<"U+FF39">>, <<"U+FF3A">>, <<"U+10400">>, <<"U+10401">>, <<"U+10402">>,
    <<"U+10403">>, <<"U+10404">>, <<"U+10405">>, <<"U+10406">>, <<"U+10407">>, <<"U+10408">>,
    <<"U+10409">>, <<"U+1040A">>, <<"U+1040B">>, <<"U+1040C">>, <<"U+1040D">>, <<"U+1040E">>,
    <<"U+1040F">>, <<"U+10410">>, <<"U+10411">>, <<"U+10412">>, <<"U+10413">>, <<"U+10414">>,
    <<"U+10415">>, <<"U+10416">>, <<"U+10417">>, <<"U+10418">>, <<"U+10419">>, <<"U+1041A">>,
    <<"U+1041B">>, <<"U+1041C">>, <<"U+1041D">>, <<"U+1041E">>, <<"U+1041F">>, <<"U+10420">>,
    <<"U+10421">>, <<"U+10422">>, <<"U+10423">>, <<"U+10424">>, <<"U+10425">>, <<"U+10426">>,
    <<"U+10427">>, <<"U+104B0">>, <<"U+104B1">>, <<"U+104B2">>, <<"U+104B3">>, <<"U+104B4">>,
    <<"U+104B5">>, <<"U+104B6">>, <<"U+104B7">>, <<"U+104B8">>, <<"U+104B9">>, <<"U+104BA">>,
    <<"U+104BB">>, <<"U+104BC">>, <<"U+104BD">>, <<"U+104BE">>, <<"U+104BF">>, <<"U+104C0">>,
    <<"U+104C1">>, <<"U+104C2">>, <<"U+104C3">>, <<"U+104C4">>, <<"U+104C5">>, <<"U+104C6">>,
    <<"U+104C7">>, <<"U+104C8">>, <<"U+104C9">>, <<"U+104CA">>, <<"U+104CB">>, <<"U+104CC">>,
    <<"U+104CD">>, <<"U+104CE">>, <<"U+104CF">>, <<"U+104D0">>, <<"U+104D1">>, <<"U+104D2">>,
    <<"U+104D3">>, <<"U+10570">>, <<"U+10571">>, <<"U+10572">>, <<"U+10573">>, <<"U+10574">>,
    <<"U+10575">>, <<"U+10576">>, <<"U+10577">>, <<"U+10578">>, <<"U+10579">>, <<"U+1057A">>,
    <<"U+1057C">>, <<"U+1057D">>, <<"U+1057E">>, <<"U+1057F">>, <<"U+10580">>, <<"U+10581">>,
    <<"U+10582">>, <<"U+10583">>, <<"U+10584">>, <<"U+10585">>, <<"U+10586">>, <<"U+10587">>,
    <<"U+10588">>, <<"U+10589">>, <<"U+1058A">>, <<"U+1058C">>, <<"U+1058D">>, <<"U+1058E">>,
    <<"U+1058F">>, <<"U+10590">>, <<"U+10591">>, <<"U+10592">>, <<"U+10594">>, <<"U+10595">>,
    <<"U+10C80">>, <<"U+10C81">>, <<"U+10C82">>, <<"U+10C83">>, <<"U+10C84">>, <<"U+10C85">>,
    <<"U+10C86">>, <<"U+10C87">>, <<"U+10C88">>, <<"U+10C89">>, <<"U+10C8A">>, <<"U+10C8B">>,
    <<"U+10C8C">>, <<"U+10C8D">>, <<"U+10C8E">>, <<"U+10C8F">>, <<"U+10C90">>, <<"U+10C91">>,
    <<"U+10C92">>, <<"U+10C93">>, <<"U+10C94">>, <<"U+10C95">>, <<"U+10C96">>, <<"U+10C97">>,
    <<"U+10C98">>, <<"U+10C99">>, <<"U+10C9A">>, <<"U+10C9B">>, <<"U+10C9C">>, <<"U+10C9D">>,
    <<"U+10C9E">>, <<"U+10C9F">>, <<"U+10CA0">>, <<"U+10CA1">>, <<"U+10CA2">>, <<"U+10CA3">>,
    <<"U+10CA4">>, <<"U+10CA5">>, <<"U+10CA6">>, <<"U+10CA7">>, <<"U+10CA8">>, <<"U+10CA9">>,
    <<"U+10CAA">>, <<"U+10CAB">>, <<"U+10CAC">>, <<"U+10CAD">>, <<"U+10CAE">>, <<"U+10CAF">>,
    <<"U+10CB0">>, <<"U+10CB1">>, <<"U+10CB2">>, <<"U+118A0">>, <<"U+118A1">>, <<"U+118A2">>,
    <<"U+118A3">>, <<"U+118A4">>, <<"U+118A5">>, <<"U+118A6">>, <<"U+118A7">>, <<"U+118A8">>,
    <<"U+118A9">>, <<"U+118AA">>, <<"U+118AB">>, <<"U+118AC">>, <<"U+118AD">>, <<"U+118AE">>,
    <<"U+118AF">>, <<"U+118B0">>, <<"U+118B1">>, <<"U+118B2">>, <<"U+118B3">>, <<"U+118B4">>,
    <<"U+118B5">>, <<"U+118B6">>, <<"U+118B7">>, <<"U+118B8">>, <<"U+118B9">>, <<"U+118BA">>,
    <<"U+118BB">>, <<"U+118BC">>, <<"U+118BD">>, <<"U+118BE">>, <<"U+118BF">>, <<"U+16E40">>,
    <<"U+16E41">>, <<"U+16E42">>, <<"U+16E43">>, <<"U+16E44">>, <<"U+16E45">>, <<"U+16E46">>,
    <<"U+16E47">>, <<"U+16E48">>, <<"U+16E49">>, <<"U+16E4A">>, <<"U+16E4B">>, <<"U+16E4C">>,
    <<"U+16E4D">>, <<"U+16E4E">>, <<"U+16E4F">>, <<"U+16E50">>, <<"U+16E51">>, <<"U+16E52">>,
    <<"U+16E53">>, <<"U+16E54">>, <<"U+16E55">>, <<"U+16E56">>, <<"U+16E57">>, <<"U+16E58">>,
    <<"U+16E59">>, <<"U+16E5A">>, <<"U+16E5B">>, <<"U+16E5C">>, <<"U+16E5D">>, <<"U+16E5E">>,
    <<"U+16E5F">>, <<"U+1E900">>, <<"U+1E901">>, <<"U+1E902">>, <<"U+1E903">>, <<"U+1E904">>,
    <<"U+1E905">>, <<"U+1E906">>, <<"U+1E907">>, <<"U+1E908">>, <<"U+1E909">>, <<"U+1E90A">>,
    <<"U+1E90B">>, <<"U+1E90C">>, <<"U+1E90D">>, <<"U+1E90E">>, <<"U+1E90F">>, <<"U+1E910">>,
    <<"U+1E911">>, <<"U+1E912">>, <<"U+1E913">>, <<"U+1E914">>, <<"U+1E915">>, <<"U+1E916">>,
    <<"U+1E917">>, <<"U+1E918">>, <<"U+1E919">>, <<"U+1E91A">>, <<"U+1E91B">>, <<"U+1E91C">>,
    <<"U+1E91D">>, <<"U+1E91E">>, <<"U+1E91F">>, <<"U+1E920">>, <<"U+1E921">> >>

\* the alphabetic characters outside ASCII that the model knows: the letters of
\* Latin-1 and the letters of the two tables above
OtherLetters == {
    "ª", "µ", "º", "À", "Á", "Â", "Ã", "Ä", "Å", "Æ", "Ç", "È",
    "É", "Ê", "Ë", "Ì", "Í", "Î", "Ï", "Ð", "Ñ", "Ò", "Ó", "Ô",
    "Õ", "Ö", "Ø", "Ù", "Ú", "Û", "Ü", "Ý", "Þ", "ß", "à", "á",
    "â", "ã", "ä", "å", "æ", "ç", "è", "é", "ê", "ë", "ì", "í",
    "î", "ï", "ð", "ñ", "ò", "ó", "ô", "õ", "ö", "ø", "ù", "ú",
    "û", "ü", "ý", "þ", "ÿ", "U+0100", "U+0101", "U+0102", "U+0103", "U+0104", "U+0105", "U+0106",
    "U+0107", "U+0108", "U+0109", "U+010A", "U+010B", "U+010C", "U+010D", "U+010E", "U+010F", "U+0110", "U+0111", "U+0112",
    "U+0113", "U+0114", "U+0115", "U+0116", "U+0117", "U+0118", "U+0119", "U+011A", "U+011B", "U+011C", "U+011D", "U+011E",
    "U+011F", "U+0120", "U+0121", "U+0122", "U+0123", "U+0124", "U+0125", "U+0126", "U+0127", "U+0128", "U+0129", "U+012A",
    "U+012B", "U+012C", "U+012D", "U+012E", "U+012F", "U+0131", "U+0132", "U+0133", "U+0134", "U+0135", "U+0136", "U+0137",
    "U+0139", "U+013A", "U+013B", "U+013C", "U+013D", "U+013E", "U+013F", "U+0140", "U+0141", "U+0142", "U+0143", "U+0144",
    "U+0145", "U+0146", "U+0147", "U+0148", "U+0149", "U+014A", "U+014B", "U+014C", "U+014D", "U+014E", "U+014F", "U+0150",
    "U+0151", "U+0152", "U+0153", "U+0154", "U+0155", "U+0156", "U+0157", "U+0158", "U+0159", "U+015A", "U+015B", "U+015C",
    "U+015D", "U+015E", "U+015F", "U+0160", "U+0161", "U+0162", "U+0163", "U+0164", "U+0165", "U+0166", "U+0167", "U+0168",
    "U+0169", "U+016A", "U+016B", "U+016C", "U+016D", "U+016E", "U+016F", "U+0170", "U+0171", "U+0172", "U+0173", "U+0174",
    "U+0175", "U+0176", "U+0177", "U+0178", "U+0179", "U+017A", "U+017B", "U+017C", "U+017D", "U+017E", "U+017F", "U+0180",
    "U+0181", "U+0182", "U+0183", "U+0184", "U+0185", "U+0186", "U+0187", "U+0188", "U+0189", "U+018A", "U+018B", "U+018C",
    "U+018E", "U+018F", "U+0190", "U+0191", "U+0192", "U+0193", "U+0194", "U+0195", "U+0196", "U+0197", "U+0198", "U+0199",
    "U+019A", "U+019C", "U+019D", "U+019E", "U+019F", "U+01A0", "U+01A1", "U+01A2", "U+01A3", "U+01A4", "U+01A5", "U+01A6",
    "U+01A7", "U+01A8", "U+01A9", "U+01AC", "U+01AD", "U+01AE", "U+01AF", "U+01B0", "U+01B1", "U+01B2", "U+01B3", "U+01B4",
    "U+01B5", "U+01B6", "U+01B7", "U+01B8", "U+01B9", "U+01BC", "U+01BD", "U+01BF", "U+01C4", "U+01C5", "U+01C6", "U+01C7",
    "U+01C8", "U+01C9", "U+01CA", "U+01CB", "U+01CC", "U+01CD", "U+01CE", "U+01CF", "U+01D0", "U+01D1", "U+01D2", "U+01D3",
    "U+01D4", "U+01D5", "U+01D6", "U+01D7", "U+01D8", "U+01D9", "U+01DA", "U+01DB", "U+01DC", "U+01DD", "U+01DE", "U+01DF",
    "U+01E0", "U+01E1", "U+01E2", "U+01E3", "U+01E4", "U+01E5", "U+01E6", "U+01E7", "U+01E8", "U+01E9", "U+01EA", "U+01EB",
    "U+01EC", "U+01ED", "U+01EE", "U+01EF", "U+01F0", "U+01F1", "U+01F2", "U+01F3", "U+01F4", "U+01F5", "U+01F6", "U+01F7",
    "U+01F8", "U+01F9", "U+01FA", "U+01FB", "U+01FC", "U+01FD", "U+01FE", "U+01FF", "U+0200", "U+0201", "U+0202", "U+0203",
    "U+0204", "U+0205", "U+0206", "U+0207", "U+0208", "U+0209", "U+020A", "U+020B", "U+020C", "U+020D", "U+020E", "U+020F",
    "U+0210", "U+0211", "U+0212", "U+0213", "U+0214", "U+0215", "U+0216", "U+0217", "U+0218", "U+0219", "U+021A", "U+021B",
    "U+021C", "U+021D", "U+021E", "U+021F", "U+0220", "U+0222", "U+0223", "U+0224", "U+0225", "U+0226", "U+0227", "U+0228",
    "U+0229", "U+022A", "U+022B", "U+022C", "U+022D", "U+022E", "U+022F", "U+0230", "U+0231", "U+0232", "U+0233", "U+023A",
    "U+023B", "U+023C", "U+023D", "U+023E", "U+023F", "U+0240", "U+0241", "U+0242", "U+0243", "U+0244", "U+0245", "U+0246",
    "U+0247", "U+0248", "U+0249", "U+024A", "U+024B", "U+024C", "U+024D", "U+024E", "U+024F", "U+0250", "U+0251", "U+0252",
    "U+0253", "U+0254", "U+0256", "U+0257", "U+0259", "U+025B", "U+025C", "U+0260", "U+0261", "U+0263", "U+0265", "U+0266",
    "U+0268", "U+0269", "U+026A", "U+026B", "U+026C", "U+026F", "U+0271", "U+0272", "U+0275", "U+027D", "U+0280", "U+0282",
    "U+0283", "U+0287", "U+0288", "U+0289", "U+028A", "U+028B", "U+028C", "U+0292", "U+029D", "U+029E", "U+02BC", "U+02BE",
    "U+0370", "U+0371", "U+0372", "U+0373", "U+0376", "U+0377", "U+037B", "U+037C", "U+037D", "U+037F", "U+0386", "U+0388",
    "U+0389", "U+038A", "U+038C", "U+038E", "U+038F", "U+0390", "U+0391", "U+0392", "U+0393", "U+0394", "U+0395", "U+0396",
    "U+0397", "U+0398", "U+0399", "U+039A", "U+039B", "U+039C", "U+039D", "U+039E", "U+039F", "U+03A0", "U+03A1", "U+03A3",
    "U+03A4", "U+03A5", "U+03A6", "U+03A7", "U+03A8", "U+03A9", "U+03AA", "U+03AB", "U+03AC", "U+03AD", "U+03AE", "U+03AF",
    "U+03B0", "U+03B1", "U+03B2", "U+03B3", "U+03B4", "U+03B5", "U+03B6", "U+03B7", "U+03B8", "U+03B9", "U+03BA", "U+03BB",
    "U+03BC", "U+03BD", "U+03BE", "U+03BF", "U+03C0", "U+03C1", "U+03C2", "U+03C3", "U+03C4", "U+03C5", "U+03C6", "U+03C7",
    "U+03C8", "U+03C9", "U+03CA", "U+03CB", "U+03CC", "U+03CD", "U+03CE", "U+03CF", "U+03D0", "U+03D1", "U+03D5", "U+03D6",
    "U+03D7", "U+03D8", "U+03D9", "U+03DA", "U+03DB", "U+03DC", "U+03DD", "U+03DE", "U+03DF", "U+03E0", "U+03E1", "U+03E2",
    "U+03E3", "U+03E4", "U+03E5", "U+03E6", "U+03E7", "U+03E8", "U+03E9", "U+03EA", "U+03EB", "U+03EC", "U+03ED", "U+03EE",
    "U+03EF", "U+03F0", "U+03F1", "U+03F2", "U+03F3", "U+03F5", "U+03F7", "U+03F8", "U+03F9", "U+03FA", "U+03FB", "U+03FD",
    "U+03FE", "U+03FF", "U+0400", "U+0401", "U+0402", "U+0403", "U+0404", "U+0405", "U+0406", "U+0407", "U+0408", "U+0409",
    "U+040A", "U+040B", "U+040C", "U+040D", "U+040E", "U+040F", "U+0410", "U+0411", "U+0412", "U+0413", "U+0414", "U+0415",
    "U+0416", "U+0417", "U+0418", "U+0419", "U+041A", "U+041B", "U+041C", "U+041D", "U+041E", "U+041F", "U+0420", "U+0421",
    "U+0422", "U+0423", "U+0424", "U+0425", "U+0426", "U+0427", "U+0428", "U+0429", "U+042A", "U+042B", "U+042C", "U+042D",
    "U+042E", "U+042F", "U+0430", "U+0431", "U+0432", "U+0433", "U+0434", "U+0435", "U+0436", "U+0437", "U+0438", "U+0439",
    "U+043A", "U+043B", "U+043C", "U+043D", "U+043E", "U+043F", "U+0440", "U+0441", "U+0442", "U+0443", "U+0444", "U+0445",
    "U+0446", "U+0447", "U+0448", "U+0449", "U+044A", "U+044B", "U+044C", "U+044D", "U+044E", "U+044F", "U+0450", "U+0451",
    "U+0452", "U+0453", "U+0454", "U+0455", "U+0456", "U+0457", "U+0458", "U+0459", "U+045A", "U+045B", "U+045C", "U+045D",
    "U+045E", "U+045F", "U+0460", "U+0461", "U+0462", "U+0463", "U+0464", "U+0465", "U+0466", "U+0467", "U+0468", "U+0469",
    "U+046A", "U+046B", "U+046C", "U+046D", "U+046E", "U+046F", "U+0470", "U+0471", "U+0472", "U+0473", "U+0474", "U+0475",
    "U+0476", "U+0477", "U+0478", "U+0479", "U+047A", "U+047B", "U+047C", "U+047D", "U+047E", "U+047F", "U+0480", "U+0481",
    "U+048A", "U+048B", "U+048C", "U+048D", "U+048E", "U+048F", "U+0490", "U+0491", "U+0492", "U+0493", "U+0494", "U+0495",
    "U+0496", "U+0497", "U+0498", "U+0499", "U+049A", "U+049B", "U+049C", "U+049D", "U+049E", "U+049F", "U+04A0", "U+04A1",
    "U+04A2", "U+04A3", "U+04A4", "U+04A5", "U+04A6", "U+04A7", "U+04A8", "U+04A9", "U+04AA", "U+04AB", "U+04AC", "U+04AD",
    "U+04AE", "U+04AF", "U+04B0", "U+04B1", "U+04B2", "U+04B3", "U+04B4", "U+04B5", "U+04B6", "U+04B7", "U+04B8", "U+04B9",
    "U+04BA", "U+04BB", "U+04BC", "U+04BD", "U+04BE", "U+04BF", "U+04C0", "U+04C1", "U+04C2", "U+04C3", "U+04C4", "U+04C5",
    "U+04C6", "U+04C7", "U+04C8", "U+04C9", "U+04CA", "U+04CB", "U+04CC", "U+04CD", "U+04CE", "U+04CF", "U+04D0", "U+04D1",
    "U+04D2", "U+04D3", "U+04D4", "U+04D5", "U+04D6", "U+04D7", "U+04D8", "U+04D9", "U+04DA", "U+04DB", "U+04DC", "U+04DD",
    "U+04DE", "U+04DF", "U+04E0", "U+04E1", "U+04E2", "U+04E3", "U+04E4", "U+04E5", "U+04E6", "U+04E7", "U+04E8", "U+04E9",
    "U+04EA", "U+04EB", "U+04EC", "U+04ED", "U+04EE", "U+04EF", "U+04F0", "U+04F1", "U+04F2", "U+04F3", "U+04F4", "U+04F5",
    "U+04F6", "U+04F7", "U+04F8", "U+04F9", "U+04FA", "U+04FB", "U+04FC", "U+04FD", "U+04FE", "U+04FF", "U+0500", "U+0501",
    "U+0502", "U+0503", "U+0504", "U+0505", "U+0506", "U+0507", "U+0508", "U+0509", "U+050A", "U+050B", "U+050C", "U+050D",
    "U+050E", "U+050F", "U+0510", "U+0511", "U+0512", "U+0513", "U+0514", "U+0515", "U+0516", "U+0517", "U+0518", "U+0519",
    "U+051A", "U+051B", "U+051C", "U+051D", "U+051E", "U+051F", "U+0520", "U+0521", "U+0522", "U+0523", "U+0524", "U+0525",
    "U+0526", "U+0527", "U+0528", "U+0529", "U+052A", "U+052B", "U+052C", "U+052D", "U+052E", "U+052F", "U+0531", "U+0532",
    "U+0533", "U+0534", "U+0535", "U+0536", "U+0537", "U+0538", "U+0539", "U+053A", "U+053B", "U+053C", "U+053D", "U+053E",
    "U+053F", "U+0540", "U+0541", "U+0542", "U+0543", "U+0544", "U+0545", "U+0546", "U+0547", "U+0548", "U+0549", "U+054A",
    "U+054B", "U+054C", "U+054D", "U+054E", "U+054F", "U+0550", "U+0551", "U+0552", "U+0553", "U+0554", "U+0555", "U+0556",
    "U+0561", "U+0562", "U+0563", "U+0564", "U+0565", "U+0566", "U+0567", "U+0568", "U+0569", "U+056A", "U+056B", "U+056C",
    "U+056D", "U+056E", "U+056F", "U+0570", "U+0571", "U+0572", "U+0573", "U+0574", "U+0575", "U+0576", "U+0577", "U+0578",
    "U+0579", "U+057A", "U+057B", "U+057C", "U+057D", "U+057E", "U+057F", "U+0580", "U+0581", "U+0582", "U+0583", "U+0584",
    "U+0585", "U+0586", "U+0587", "U+10A0", "U+10A1", "U+10A2", "U+10A3", "U+10A4", "U+10A5", "U+10A6", "U+10A7", "U+10A8",
    "U+10A9", "U+10AA", "U+10AB", "U+10AC", "U+10AD", "U+10AE", "U+10AF", "U+10B0", "U+10B1", "U+10B2", "U+10B3", "U+10B4",
    "U+10B5", "U+10B6", "U+10B7", "U+10B8", "U+10B9", "U+10BA", "U+10BB", "U+10BC", "U+10BD", "U+10BE", "U+10BF", "U+10C0",
    "U+10C1", "U+10C2", "U+10C3", "U+10C4", "U+10C5", "U+10C7", "U+10CD", "U+10D0", "U+10D1", "U+10D2", "U+10D3", "U+10D4",
    "U+10D5", "U+10D6", "U+10D7", "U+10D8", "U+10D9", "U+10DA", "U+10DB", "U+10DC", "U+10DD", "U+10DE", "U+10DF", "U+10E0",
    "U+10E1", "U+10E2", "U+10E3", "U+10E4", "U+10E5", "U+10E6", "U+10E7", "U+10E8", "U+10E9", "U+10EA", "U+10EB", "U+10EC",
    "U+10ED", "U+10EE", "U+10EF", "U+10F0", "U+10F1", "U+10F2", "U+10F3", "U+10F4", "U+10F5", "U+10F6", "U+10F7", "U+10F8",
    "U+10F9", "U+10FA", "U+10FD", "U+10FE", "U+10FF", "U+13A0", "U+13A1", "U+13A2", "U+13A3", "U+13A4", "U+13A5", "U+13A6",
    "U+13A7", "U+13A8", "U+13A9", "U+13AA", "U+13AB", "U+13AC", "U+13AD", "U+13AE", "U+13AF", "U+13B0", "U+13B1", "U+13B2",
    "U+13B3", "U+13B4", "U+13B5", "U+13B6", "U+13B7", "U+13B8", "U+13B9", "U+13BA", "U+13BB", "U+13BC", "U+13BD", "U+13BE",
    "U+13BF", "U+13C0", "U+13C1", "U+13C2", "U+13C3", "U+13C4", "U+13C5", "U+13C6", "U+13C7", "U+13C8", "U+13C9", "U+13CA",
    "U+13CB", "U+13CC", "U+13CD", "U+13CE", "U+13CF", "U+13D0", "U+13D1", "U+13D2", "U+13D3", "U+13D4", "U+13D5", "U+13D6",
    "U+13D7", "U+13D8", "U+13D9", "U+13DA", "U+13DB", "U+13DC", "U+13DD", "U+13DE", "U+13DF", "U+13E0", "U+13E1", "U+13E2",
    "U+13E3", "U+13E4", "U+13E5", "U+13E6", "U+13E7", "U+13E8", "U+13E9", "U+13EA", "U+13EB", "U+13EC", "U+13ED", "U+13EE",
    "U+13EF", "U+13F0", "U+13F1", "U+13F2", "U+13F3", "U+13F4", "U+13F5", "U+13F8", "U+13F9", "U+13FA", "U+13FB", "U+13FC",
    "U+13FD", "U+1C80", "U+1C81", "U+1C82", "U+1C83", "U+1C84", "U+1C85", "U+1C86", "U+1C87", "U+1C88", "U+1C90", "U+1C91",
    "U+1C92", "U+1C93", "U+1C94", "U+1C95", "U+1C96", "U+1C97", "U+1C98", "U+1C99", "U+1C9A", "U+1C9B", "U+1C9C", "U+1C9D",
    "U+1C9E", "U+1C9F", "U+1CA0", "U+1CA1", "U+1CA2", "U+1CA3", "U+1CA4", "U+1CA5", "U+1CA6", "U+1CA7", "U+1CA8", "U+1CA9",
    "U+1CAA", "U+1CAB", "U+1CAC", "U+1CAD", "U+1CAE", "U+1CAF", "U+1CB0", "U+1CB1", "U+1CB2", "U+1CB3", "U+1CB4", "U+1CB5",
    "U+1CB6", "U+1CB7", "U+1CB8", "U+1CB9", "U+1CBA", "U+1CBD", "U+1CBE", "U+1CBF", "U+1D79", "U+1D7D", "U+1D8E", "U+1E00",
    "U+1E01", "U+1E02", "U+1E03", "U+1E04", "U+1E05", "U+1E06", "U+1E07", "U+1E08", "U+1E09", "U+1E0A", "U+1E0B", "U+1E0C",
    "U+1E0D", "U+1E0E", "U+1E0F", "U+1E10", "U+1E11", "U+1E12", "U+1E13", "U+1E14", "U+1E15", "U+1E16", "U+1E17", "U+1E18",
    "U+1E19", "U+1E1A", "U+1E1B", "U+1E1C", "U+1E1D", "U+1E1E", "U+1E1F", "U+1E20", "U+1E21", "U+1E22", "U+1E23", "U+1E24",
    "U+1E25", "U+1E26", "U+1E27", "U+1E28", "U+1E29", "U+1E2A", "U+1E2B", "U+1E2C", "U+1E2D", "U+1E2E", "U+1E2F", "U+1E30",
    "U+1E31", "U+1E32", "U+1E33", "U+1E34", "U+1E35", "U+1E36", "U+1E37", "U+1E38", "U+1E39", "U+1E3A", "U+1E3B", "U+1E3C",
    "U+1E3D", "U+1E3E", "U+1E3F", "U+1E40", "U+1E41", "U+1E42", "U+1E43", "U+1E44", "U+1E45", "U+1E46", "U+1E47", "U+1E48",
    "U+1E49", "U+1E4A", "U+1E4B", "U+1E4C", "U+1E4D", "U+1E4E", "U+1E4F", "U+1E50", "U+1E51", "U+1E52", "U+1E53", "U+1E54",
    "U+1E55", "U+1E56", "U+1E57", "U+1E58", "U+1E59", "U+1E5A", "U+1E5B", "U+1E5C", "U+1E5D", "U+1E5E", "U+1E5F", "U+1E60",
    "U+1E61", "U+1E62", "U+1E63", "U+1E64", "U+1E65", "U+1E66", "U+1E67", "U+1E68", "U+1E69", "U+1E6A", "U+1E6B", "U+1E6C",
    "U+1E6D", "U+1E6E", "U+1E6F", "U+1E70", "U+1E71", "U+1E72", "U+1E73", "U+1E74", "U+1E75", "U+1E76", "U+1E77", "U+1E78",
    "U+1E79", "U+1E7A", "U+1E7B", "U+1E7C", "U+1E7D", "U+1E7E", "U+1E7F", "U+1E80", "U+1E81", "U+1E82", "U+1E83", "U+1E84",
    "U+1E85", "U+1E86", "U+1E87", "U+1E88", "U+1E89", "U+1E8A", "U+1E8B", "U+1E8C", "U+1E8D", "U+1E8E", "U+1E8F", "U+1E90",
    "U+1E91", "U+1E92", "U+1E93", "U+1E94", "U+1E95", "U+1E96", "U+1E97", "U+1E98", "U+1E99", "U+1E9A", "U+1E9B", "U+1EA0",
    "U+1EA1", "U+1EA2", "U+1EA3", "U+1EA4", "U+1EA5", "U+1EA6", "U+1EA7", "U+1EA8", "U+1EA9", "U+1EAA", "U+1EAB", "U+1EAC",
    "U+1EAD", "U+1EAE", "U+1EAF", "U+1EB0", "U+1EB1", "U+1EB2", "U+1EB3", "U+1EB4", "U+1EB5", "U+1EB6", "U+1EB7", "U+1EB8",
    "U+1EB9", "U+1EBA", "U+1EBB", "U+1EBC", "U+1EBD", "U+1EBE", "U+1EBF", "U+1EC0", "U+1EC1", "U+1EC2", "U+1EC3", "U+1EC4",
    "U+1EC5", "U+1EC6", "U+1EC7", "U+1EC8", "U+1EC9", "U+1ECA", "U+1ECB", "U+1ECC", "U+1ECD", "U+1ECE", "U+1ECF", "U+1ED0",
    "U+1ED1", "U+1ED2", "U+1ED3", "U+1ED4", "U+1ED5", "U+1ED6", "U+1ED7", "U+1ED8", "U+1ED9", "U+1EDA", "U+1EDB", "U+1EDC",
    "U+1EDD", "U+1EDE", "U+1EDF", "U+1EE0", "U+1EE1", "U+1EE2", "U+1EE3", "U+1EE4", "U+1EE5", "U+1EE6", "U+1EE7", "U+1EE8",
    "U+1EE9", "U+1EEA", "U+1EEB", "U+1EEC", "U+1EED", "U+1EEE", "U+1EEF", "U+1EF0", "U+1EF1", "U+1EF2", "U+1EF3", "U+1EF4",
    "U+1EF5", "U+1EF6", "U+1EF7", "U+1EF8", "U+1EF9", "U+1EFA", "U+1EFB", "U+1EFC", "U+1EFD", "U+1EFE", "U+1EFF", "U+1F00",
    "U+1F01", "U+1F02", "U+1F03", "U+1F04", "U+1F05", "U+1F06", "U+1F07", "U+1F08", "U+1F09", "U+1F0A", "U+1F0B", "U+1F0C",
    "U+1F0D", "U+1F0E", "U+1F0F", "U+1F10", "U+1F11", "U+1F12", "U+1F13", "U+1F14", "U+1F15", "U+1F18", "U+1F19", "U+1F1A",
    "U+1F1B", "U+1F1C", "U+1F1D", "U+1F20", "U+1F21", "U+1F22", "U+1F23", "U+1F24", "U+1F25", "U+1F26", "U+1F27", "U+1F28",
    "U+1F29", "U+1F2A", "U+1F2B", "U+1F2C", "U+1F2D", "U+1F2E", "U+1F2F", "U+1F30", "U+1F31", "U+1F32", "U+1F33", "U+1F34",
    "U+1F35", "U+1F36", "U+1F37", "U+1F38", "U+1F39", "U+1F3A", "U+1F3B", "U+1F3C", "U+1F3D", "U+1F3E", "U+1F3F", "U+1F40",
    "U+1F41", "U+1F42", "U+1F43", "U+1F44", "U+1F45", "U+1F48", "U+1F49", "U+1F4A", "U+1F4B", "U+1F4C", "U+1F4D", "U+1F50",
    "U+1F51", "U+1F52", "U+1F53", "U+1F54", "U+1F55", "U+1F56", "U+1F57", "U+1F59", "U+1F5B", "U+1F5D", "U+1F5F", "U+1F60",
    "U+1F61", "U+1F62", "U+1F63", "U+1F64", "U+1F65", "U+1F66", "U+1F67", "U+1F68", "U+1F69", "U+1F6A", "U+1F6B", "U+1F6C",
    "U+1F6D", "U+1F6E", "U+1F6F", "U+1F70", "U+1F71", "U+1F72", "U+1F73", "U+1F74", "U+1F75", "U+1F76", "U+1F77", "U+1F78",
    "U+1F79", "U+1F7A", "U+1F7B", "U+1F7C", "U+1F7D", "U+1F80", "U+1F81", "U+1F82", "U+1F83", "U+1F84", "U+1F85", "U+1F86",
    "U+1F87", "U+1F88", "U+1F89", "U+1F8A", "U+1F8B", "U+1F8C", "U+1F8D", "U+1F8E", "U+1F8F", "U+1F90", "U+1F91", "U+1F92",
    "U+1F93", "U+1F94", "U+1F95", "U+1F96", "U+1F97", "U+1F98", "U+1F99", "U+1F9A", "U+1F9B", "U+1F9C", "U+1F9D", "U+1F9E",
    "U+1F9F", "U+1FA0", "U+1FA1", "U+1FA2", "U+1FA3", "U+1FA4", "U+1FA5", "U+1FA6", "U+1FA7", "U+1FA8", "U+1FA9", "U+1FAA",
    "U+1FAB", "U+1FAC", "U+1FAD", "U+1FAE", "U+1FAF", "U+1FB0", "U+1FB1", "U+1FB2", "U+1FB3", "U+1FB4", "U+1FB6", "U+1FB7",
    "U+1FB8", "U+1FB9", "U+1FBA", "U+1FBB", "U+1FBC", "U+1FBE", "U+1FC2", "U+1FC3", "U+1FC4", "U+1FC6", "U+1FC7", "U+1FC8",
    "U+1FC9", "U+1FCA", "U+1FCB", "U+1FCC", "U+1FD0", "U+1FD1", "U+1FD2", "U+1FD3", "U+1FD6", "U+1FD7", "U+1FD8", "U+1FD9",
    "U+1FDA", "U+1FDB", "U+1FE0", "U+1FE1", "U+1FE2", "U+1FE3", "U+1FE4", "U+1FE5", "U+1FE6", "U+1FE7", "U+1FE8", "U+1FE9",
    "U+1FEA", "U+1FEB", "U+1FEC", "U+1FF2", "U+1FF3", "U+1FF4", "U+1FF6", "U+1FF7", "U+1FF8", "U+1FF9", "U+1FFA", "U+1FFB",
    "U+1FFC", "U+2132", "U+214E", "U+2183", "U+2184", "U+2C00", "U+2C01", "U+2C02", "U+2C03", "U+2C04", "U+2C05", "U+2C06",
    "U+2C07", "U+2C08", "U+2C09", "U+2C0A", "U+2C0B", "U+2C0C", "U+2C0D", "U+2C0E", "U+2C0F", "U+2C10", "U+2C11", "U+2C12",
    "U+2C13", "U+2C14", "U+2C15", "U+2C16", "U+2C17", "U+2C18", "U+2C19", "U+2C1A", "U+2C1B", "U+2C1C", "U+2C1D", "U+2C1E",
    "U+2C1F", "U+2C20", "U+2C21", "U+2C22", "U+2C23", "U+2C24", "U+2C25", "U+2C26", "U+2C27", "U+2C28", "U+2C29", "U+2C2A",
    "U+2C2B", "U+2C2C", "U+2C2D", "U+2C2E", "U+2C2F", "U+2C30", "U+2C31", "U+2C32", "U+2C33", "U+2C34", "U+2C35", "U+2C36",
    "U+2C37", "U+2C38", "U+2C39", "U+2C3A", "U+2C3B", "U+2C3C", "U+2C3D", "U+2C3E", "U+2C3F", "U+2C40", "U+2C41", "U+2C42",
    "U+2C43", "U+2C44", "U+2C45", "U+2C46", "U+2C47", "U+2C48", "U+2C49", "U+2C4A", "U+2C4B", "U+2C4C", "U+2C4D", "U+2C4E",
    "U+2C4F", "U+2C50", "U+2C51", "U+2C52", "U+2C53", "U+2C54", "U+2C55", "U+2C56", "U+2C57", "U+2C58", "U+2C59", "U+2C5A",
    "U+2C5B", "U+2C5C", "U+2C5D", "U+2C5E", "U+2C5F", "U+2C60", "U+2C61", "U+2C62", "U+2C63", "U+2C64", "U+2C65", "U+2C66",
    "U+2C67", "U+2C68", "U+2C69", "U+2C6A", "U+2C6B", "U+2C6C", "U+2C6D", "U+2C6E", "U+2C6F", "U+2C70", "U+2C72", "U+2C73",
    "U+2C75", "U+2C76", "U+2C7E", "U+2C7F", "U+2C80", "U+2C81", "U+2C82", "U+2C83", "U+2C84", "U+2C85", "U+2C86", "U+2C87",
    "U+2C88", "U+2C89", "U+2C8A", "U+2C8B", "U+2C8C", "U+2C8D", "U+2C8E", "U+2C8F", "U+2C90", "U+2C91", "U+2C92", "U+2C93",
    "U+2C94", "U+2C95", "U+2C96", "U+2C97", "U+2C98", "U+2C99", "U+2C9A", "U+2C9B", "U+2C9C", "U+2C9D", "U+2C9E", "U+2C9F",
    "U+2CA0", "U+2CA1", "U+2CA2", "U+2CA3", "U+2CA4", "U+2CA5", "U+2CA6", "U+2CA7", "U+2CA8", "U+2CA9", "U+2CAA", "U+2CAB",
    "U+2CAC", "U+2CAD", "U+2CAE", "U+2CAF", "U+2CB0", "U+2CB1", "U+2CB2", "U+2CB3", "U+2CB4", "U+2CB5", "U+2CB6", "U+2CB7",
    "U+2CB8", "U+2CB9", "U+2CBA", "U+2CBB", "U+2CBC", "U+2CBD", "U+2CBE", "U+2CBF", "U+2CC0", "U+2CC1", "U+2CC2", "U+2CC3",
    "U+2CC4", "U+2CC5", "U+2CC6", "U+2CC7", "U+2CC8", "U+2CC9", "U+2CCA", "U+2CCB", "U+2CCC", "U+2CCD", "U+2CCE", "U+2CCF",
    "U+2CD0", "U+2CD1", "U+2CD2", "U+2CD3", "U+2CD4", "U+2CD5", "U+2CD6", "U+2CD7", "U+2CD8", "U+2CD9", "U+2CDA", "U+2CDB",
    "U+2CDC", "U+2CDD", "U+2CDE", "U+2CDF", "U+2CE0", "U+2CE1", "U+2CE2", "U+2CE3", "U+2CEB", "U+2CEC", "U+2CED", "U+2CEE",
    "U+2CF2", "U+2CF3", "U+2D00", "U+2D01", "U+2D02", "U+2D03", "U+2D04", "U+2D05", "U+2D06", "U+2D07", "U+2D08", "U+2D09",
    "U+2D0A", "U+2D0B", "U+2D0C", "U+2D0D", "U+2D0E", "U+2D0F", "U+2D10", "U+2D11", "U+2D12", "U+2D13", "U+2D14", "U+2D15",
    "U+2D16", "U+2D17", "U+2D18", "U+2D19", "U+2D1A", "U+2D1B", "U+2D1C", "U+2D1D", "U+2D1E", "U+2D1F", "U+2D20", "U+2D21",
    "U+2D22", "U+2D23", "U+2D24", "U+2D25", "U+2D27", "U+2D2D", "U+A640", "U+A641", "U+A642", "U+A643", "U+A644", "U+A645",
    "U+A646", "U+A647", "U+A648", "U+A649", "U+A64A", "U+A64B", "U+A64C", "U+A64D", "U+A64E", "U+A64F", "U+A650", "U+A651",
    "U+A652", "U+A653", "U+A654", "U+A655", "U+A656", "U+A657", "U+A658", "U+A659", "U+A65A", "U+A65B", "U+A65C", "U+A65D",
    "U+A65E", "U+A65F", "U+A660", "U+A661", "U+A662", "U+A663", "U+A664", "U+A665", "U+A666", "U+A667", "U+A668", "U+A669",
    "U+A66A", "U+A66B", "U+A66C", "U+A66D", "U+A680", "U+A681", "U+A682", "U+A683", "U+A684", "U+A685", "U+A686", "U+A687",
    "U+A688", "U+A689", "U+A68A", "U+A68B", "U+A68C", "U+A68D", "U+A68E", "U+A68F", "U+A690", "U+A691", "U+A692", "U+A693",
    "U+A694", "U+A695", "U+A696", "U+A697", "U+A698", "U+A699", "U+A69A", "U+A69B", "U+A722", "U+A723", "U+A724", "U+A725",
    "U+A726", "U+A727", "U+A728", "U+A729", "U+A72A", "U+A72B", "U+A72C", "U+A72D", "U+A72E", "U+A72F", "U+A732", "U+A733",
    "U+A734", "U+A735", "U+A736", "U+A737", "U+A738", "U+A739", "U+A73A", "U+A73B", "U+A73C", "U+A73D", "U+A73E", "U+A73F",
    "U+A740", "U+A741", "U+A742", "U+A743", "U+A744", "U+A745", "U+A746", "U+A747", "U+A748", "U+A749", "U+A74A", "U+A74B",
    "U+A74C", "U+A74D", "U+A74E", "U+A74F", "U+A750", "U+A751", "U+A752", "U+A753", "U+A754", "U+A755", "U+A756", "U+A757",
    "U+A758", "U+A759", "U+A75A", "U+A75B", "U+A75C", "U+A75D", "U+A75E", "U+A75F", "U+A760", "U+A761", "U+A762", "U+A763",
    "U+A764", "U+A765", "U+A766", "U+A767", "U+A768", "U+A769", "U+A76A", "U+A76B", "U+A76C", "U+A76D", "U+A76E", "U+A76F",
    "U+A779", "U+A77A", "U+A77B", "U+A77C", "U+A77D", "U+A77E", "U+A77F", "U+A780", "U+A781", "U+A782", "U+A783", "U+A784",
    "U+A785", "U+A786", "U+A787", "U+A78B", "U+A78C", "U+A78D", "U+A790", "U+A791", "U+A792", "U+A793", "U+A794", "U+A796",
    "U+A797", "U+A798", "U+A799", "U+A79A", "U+A79B", "U+A79C", "U+A79D", "U+A79E", "U+A79F", "U+A7A0", "U+A7A1", "U+A7A2",
    "U+A7A3", "U+A7A4", "U+A7A5", "U+A7A6", "U+A7A7", "U+A7A8", "U+A7A9", "U+A7AA", "U+A7AB", "U+A7AC", "U+A7AD", "U+A7AE",
    "U+A7B0", "U+A7B1", "U+A7B2", "U+A7B3", "U+A7B4", "U+A7B5", "U+A7B6", "U+A7B7", "U+A7B8", "U+A7B9", "U+A7BA", "U+A7BB",
    "U+A7BC", "U+A7BD", "U+A7BE", "U+A7BF", "U+A7C0", "U+A7C1", "U+A7C2", "U+A7C3", "U+A7C4", "U+A7C5", "U+A7C6", "U+A7C7",
    "U+A7C8", "U+A7C9", "U+A7CA", "U+A7D0", "U+A7D1", "U+A7D6", "U+A7D7", "U+A7D8", "U+A7D9", "U+A7F5", "U+A7F6", "U+AB53",
    "U+AB70", "U+AB71", "U+AB72", "U+AB73", "U+AB74", "U+AB75", "U+AB76", "U+AB77", "U+AB78", "U+AB79", "U+AB7A", "U+AB7B",
    "U+AB7C", "U+AB7D", "U+AB7E", "U+AB7F", "U+AB80", "U+AB81", "U+AB82", "U+AB83", "U+AB84", "U+AB85", "U+AB86", "U+AB87",
    "U+AB88", "U+AB89", "U+AB8A", "U+AB8B", "U+AB8C", "U+AB8D", "U+AB8E", "U+AB8F", "U+AB90", "U+AB91", "U+AB92", "U+AB93",
    "U+AB94", "U+AB95", "U+AB96", "U+AB97", "U+AB98", "U+AB99", "U+AB9A", "U+AB9B", "U+AB9C", "U+AB9D", "U+AB9E", "U+AB9F",
    "U+ABA0", "U+ABA1", "U+ABA2", "U+ABA3", "U+ABA4", "U+ABA5", "U+ABA6", "U+ABA7", "U+ABA8", "U+ABA9", "U+ABAA", "U+ABAB",
    "U+ABAC", "U+ABAD", "U+ABAE", "U+ABAF", "U+ABB0", "U+ABB1", "U+ABB2", "U+ABB3", "U+ABB4", "U+ABB5", "U+ABB6", "U+ABB7",
    "U+ABB8", "U+ABB9", "U+ABBA", "U+ABBB", "U+ABBC", "U+ABBD", "U+ABBE", "U+ABBF", "U+FB00", "U+FB01", "U+FB02", "U+FB03",
    "U+FB04", "U+FB05", "U+FB06", "U+FB13", "U+FB14", "U+FB15", "U+FB16", "U+FB17", "U+FF21", "U+FF22", "U+FF23", "U+FF24",
    "U+FF25", "U+FF26", "U+FF27", "U+FF28", "U+FF29", "U+FF2A", "U+FF2B", "U+FF2C", "U+FF2D", "U+FF2E", "U+FF2F", "U+FF30",
    "U+FF31", "U+FF32", "U+FF33", "U+FF34", "U+FF35", "U+FF36", "U+FF37", "U+FF38", "U+FF39", "U+FF3A", "U+FF41", "U+FF42",
    "U+FF43", "U+FF44", "U+FF45", "U+FF46", "U+FF47", "U+FF48", "U+FF49", "U+FF4A", "U+FF4B", "U+FF4C", "U+FF4D", "U+FF4E",
    "U+FF4F", "U+FF50", "U+FF51", "U+FF52", "U+FF53", "U+FF54", "U+FF55", "U+FF56", "U+FF57", "U+FF58", "U+FF59", "U+FF5A",
    "U+10400", "U+10401", "U+10402", "U+10403", "U+10404", "U+10405", "U+10406", "U+10407", "U+10408", "U+10409", "U+1040A", "U+1040B",
    "U+1040C", "U+1040D", "U+1040E", "U+1040F", "U+10410", "U+10411", "U+10412", "U+10413", "U+10414", "U+10415", "U+10416", "U+10417",
    "U+10418", "U+10419", "U+1041A", "U+1041B", "U+1041C", "U+1041D", "U+1041E", "U+1041F", "U+10420", "U+10421", "U+10422", "U+10423",
    "U+10424", "U+10425", "U+10426", "U+10427", "U+10428", "U+10429", "U+1042A", "U+1042B", "U+1042C", "U+1042D", "U+1042E", "U+1042F",
    "U+10430", "U+10431", "U+10432", "U+10433", "U+10434", "U+10435", "U+10436", "U+10437", "U+10438", "U+10439", "U+1043A", "U+1043B",
    "U+1043C", "U+1043D", "U+1043E", "U+1043F", "U+10440", "U+10441", "U+10442", "U+10443", "U+10444", "U+10445", "U+10446", "U+10447",
    "U+10448", "U+10449", "U+1044A", "U+1044B", "U+1044C", "U+1044D", "U+1044E", "U+1044F", "U+104B0", "U+104B1", "U+104B2", "U+104B3",
    "U+104B4", "U+104B5", "U+104B6", "U+104B7", "U+104B8", "U+104B9", "U+104BA", "U+104BB", "U+104BC", "U+104BD", "U+104BE", "U+104BF",
    "U+104C0", "U+104C1", "U+104C2", "U+104C3", "U+104C4", "U+104C5", "U+104C6", "U+104C7", "U+104C8", "U+104C9", "U+104CA", "U+104CB",
    "U+104CC", "U+104CD", "U+104CE", "U+104CF", "U+104D0", "U+104D1", "U+104D2", "U+104D3", "U+104D8", "U+104D9", "U+104DA", "U+104DB",
    "U+104DC", "U+104DD", "U+104DE", "U+104DF", "U+104E0", "U+104E1", "U+104E2", "U+104E3", "U+104E4", "U+104E5", "U+104E6", "U+104E7",
    "U+104E8", "U+104E9", "U+104EA", "U+104EB", "U+104EC", "U+104ED", "U+104EE", "U+104EF", "U+104F0", "U+104F1", "U+104F2", "U+104F3",
    "U+104F4", "U+104F5", "U+104F6", "U+104F7", "U+104F8", "U+104F9", "U+104FA", "U+104FB", "U+10570", "U+10571", "U+10572", "U+10573",
    "U+10574", "U+10575", "U+10576", "U+10577", "U+10578", "U+10579", "U+1057A", "U+1057C", "U+1057D", "U+1057E", "U+1057F", "U+10580",
    "U+10581", "U+10582", "U+10583", "U+10584", "U+10585", "U+10586", "U+10587", "U+10588", "U+10589", "U+1058A", "U+1058C", "U+1058D",
    "U+1058E", "U+1058F", "U+10590", "U+10591", "U+10592", "U+10594", "U+10595", "U+10597", "U+10598", "U+10599", "U+1059A", "U+1059B",
    "U+1059C", "U+1059D", "U+1059E", "U+1059F", "U+105A0", "U+105A1", "U+105A3", "U+105A4", "U+105A5", "U+105A6", "U+105A7", "U+105A8",
    "U+105A9", "U+105AA", "U+105AB", "U+105AC", "U+105AD", "U+105AE", "U+105AF", "U+105B0", "U+105B1", "U+105B3", "U+105B4", "U+105B5",
    "U+105B6", "U+105B7", "U+105B8", "U+105B9", "U+105BB", "U+105BC", "U+10C80", "U+10C81", "U+10C82", "U+10C83", "U+10C84", "U+10C85",
    "U+10C86", "U+10C87", "U+10C88", "U+10C89", "U+10C8A", "U+10C8B", "U+10C8C", "U+10C8D", "U+10C8E", "U+10C8F", "U+10C90", "U+10C91",
    "U+10C92", "U+10C93", "U+10C94", "U+10C95", "U+10C96", "U+10C97", "U+10C98", "U+10C99", "U+10C9A", "U+10C9B", "U+10C9C", "U+10C9D",
    "U+10C9E", "U+10C9F", "U+10CA0", "U+10CA1", "U+10CA2", "U+10CA3", "U+10CA4", "U+10CA5", "U+10CA6", "U+10CA7", "U+10CA8", "U+10CA9",
    "U+10CAA", "U+10CAB", "U+10CAC", "U+10CAD", "U+10CAE", "U+10CAF", "U+10CB0", "U+10CB1", "U+10CB2", "U+10CC0", "U+10CC1", "U+10CC2",
    "U+10CC3", "U+10CC4", "U+10CC5", "U+10CC6", "U+10CC7", "U+10CC8", "U+10CC9", "U+10CCA", "U+10CCB", "U+10CCC", "U+10CCD", "U+10CCE",
    "U+10CCF", "U+10CD0", "U+10CD1", "U+10CD2", "U+10CD3", "U+10CD4", "U+10CD5", "U+10CD6", "U+10CD7", "U+10CD8", "U+10CD9", "U+10CDA",
    "U+10CDB", "U+10CDC", "U+10CDD", "U+10CDE", "U+10CDF", "U+10CE0", "U+10CE1", "U+10CE2", "U+10CE3", "U+10CE4", "U+10CE5", "U+10CE6",
    "U+10CE7", "U+10CE8", "U+10CE9", "U+10CEA", "U+10CEB", "U+10CEC", "U+10CED", "U+10CEE", "U+10CEF", "U+10CF0", "U+10CF1", "U+10CF2",
    "U+118A0", "U+118A1", "U+118A2", "U+118A3", "U+118A4", "U+118A5", "U+118A6", "U+118A7", "U+118A8", "U+118A9", "U+118AA", "U+118AB",
    "U+118AC", "U+118AD", "U+118AE", "U+118AF", "U+118B0", "U+118B1", "U+118B2", "U+118B3", "U+118B4", "U+118B5", "U+118B6", "U+118B7",
    "U+118B8", "U+118B9", "U+118BA", "U+118BB", "U+118BC", "U+118BD", "U+118BE", "U+118BF", "U+118C0", "U+118C1", "U+118C2", "U+118C3",
    "U+118C4", "U+118C5", "U+118C6", "U+118C7", "U+118C8", "U+118C9", "U+118CA", "U+118CB", "U+118CC", "U+118CD", "U+118CE", "U+118CF",
    "U+118D0", "U+118D1", "U+118D2", "U+118D3", "U+118D4", "U+118D5", "U+118D6", "U+118D7", "U+118D8", "U+118D9", "U+118DA", "U+118DB",
    "U+118DC", "U+118DD", "U+118DE", "U+118DF", "U+16E40", "U+16E41", "U+16E42", "U+16E43", "U+16E44", "U+16E45", "U+16E46", "U+16E47",
    "U+16E48", "U+16E49", "U+16E4A", "U+16E4B", "U+16E4C", "U+16E4D", "U+16E4E", "U+16E4F", "U+16E50", "U+16E51", "U+16E52", "U+16E53",
    "U+16E54", "U+16E55", "U+16E56", "U+16E57", "U+16E58", "U+16E59", "U+16E5A", "U+16E5B", "U+16E5C", "U+16E5D", "U+16E5E", "U+16E5F",
    "U+16E60", "U+16E61", "U+16E62", "U+16E63", "U+16E64", "U+16E65", "U+16E66", "U+16E67", "U+16E68", "U+16E69", "U+16E6A", "U+16E6B",
    "U+16E6C", "U+16E6D", "U+16E6E", "U+16E6F", "U+16E70", "U+16E71", "U+16E72", "U+16E73", "U+16E74", "U+16E75", "U+16E76", "U+16E77",
    "U+16E78", "U+16E79", "U+16E7A", "U+16E7B", "U+16E7C", "U+16E7D", "U+16E7E", "U+16E7F", "U+1E900", "U+1E901", "U+1E902", "U+1E903",
    "U+1E904", "U+1E905", "U+1E906", "U+1E907", "U+1E908", "U+1E909", "U+1E90A", "U+1E90B", "U+1E90C", "U+1E90D", "U+1E90E", "U+1E90F",
    "U+1E910", "U+1E911", "U+1E912", "U+1E913", "U+1E914", "U+1E915", "U+1E916", "U+1E917", "U+1E918", "U+1E919", "U+1E91A", "U+1E91B",
    "U+1E91C", "U+1E91D", "U+1E91E", "U+1E91F", "U+1E920", "U+1E921", "U+1E922", "U+1E923", "U+1E924", "U+1E925", "U+1E926", "U+1E927",
    "U+1E928", "U+1E929", "U+1E92A", "U+1E92B", "U+1E92C", "U+1E92D", "U+1E92E", "U+1E92F", "U+1E930", "U+1E931", "U+1E932", "U+1E933",
    "U+1E934", "U+1E935", "U+1E936", "U+1E937", "U+1E938", "U+1E939", "U+1E93A", "U+1E93B", "U+1E93C", "U+1E93D", "U+1E93E", "U+1E93F",
    "U+1E940", "U+1E941", "U+1E942", "U+1E943" }

UpperOf == [c \in {LowerLetters[i] : i \in 1..26} |->
               UpperLetters[CHOOSE i \in 1..26 : LowerLetters[i] = c]]
OtherLowerSet == {OtherLower[i] : i \in DOMAIN OtherLower}

\* what str.upper() makes of one character
UpperChar(c) ==
    IF c \in DOMAIN UpperOf THEN <<UpperOf[c]>>
    ELSE IF c \in OtherLowerSet
    THEN OtherUpper[CHOOSE i \in DOMAIN OtherLower : OtherLower[i] = c]
    ELSE <<c>>

RECURSIVE Upper(_)
\* str.upper(): character by character, the length may grow
Upper(str) == IF str = <<>> THEN <<>> ELSE UpperChar(Head(str)) \o Upper(Tail(str))

\* obj.get("type", "STIXObject").replace('-', '_')
SanitizeLabel(str) == Replace(str, "-", "_")

\* rel_type.replace('-', '_').replace(' ', '_')
SanitizeRelType(str) == Replace(Replace(str, "-", "_"), " ", "_")

\* the alphabetic characters
Letters ==
    {LowerLetters[i] : i \in 1..26} \cup {UpperLetters[i] : i \in 1..26} \cup OtherLetters
IdentStart == Letters \cup {"_"}
IdentPart == Letters \cup Digits \cup {"_"}

RECURSIVE TrimLeft(_)
TrimLeft(str) == IF str # <<>> /\ Head(str) = " " THEN TrimLeft(Tail(str)) ELSE str
RECURSIVE TrimRight(_)
TrimRight(str) == IF str # <<>> /\ str[Len(str)] = " "
                  THEN TrimRight(SubSeq(str, 1, Len(str) - 1)) ELSE str

\* the label the Cypher parser reads from the text pasted after "n:" : the
\* blanks before and after a name are skipped
LabelName(text) == TrimRight(TrimLeft(text))

\* The label / relationship type is pasted unquoted into the Cypher text.
\* For a text of name characters and spaces the statement parses exactly when
\* the text is one plain symbolic name.  A text with any other character
\* (':', '{', ...) can complete the statement in other ways and is outside
\* the model: IsIdent has no value for it.
IsIdent(str) ==
    CASE /\ Len(str) > 0
         /\ str[1] \in IdentStart
         /\ \A i \in 1..Len(str) : str[i] \in IdentPart
           -> TRUE
      [] /\ \A i \in 1..Len(str) : str[i] \in IdentPart \cup {" "}
         /\ \/ Len(str) = 0
            \/ str[1] \notin IdentStart
            \/ \E i \in 1..Len(str) : str[i] = " "
           -> FALSE

(* ---------------- words ---------------- *)
Relationship == <<"r","e","l","a","t","i","o","n","s","h","i","p">>
Report == <<"r","e","p","o","r","t">>
REFERENCES == <<"R","E","F","E","R","E","N","C","E","S">>
RELATED_TO == <<"R","E","L","A","T","E","D","_","T","O">>
STIXObject == <<"S","T","I","X","O","b","j","e","c","t">>

(* ---------------- graph store (Cypher semantics) ---------------- *)
Keys(props) == {kv[1] : kv \in props}

\* variant: SET x = $props (replace instead of merge)
SetReplace(old, props) == props

\* SET x += $props : keys of the payload overwrite, other keys stay
SetPlus(old, props) == {kv \in old : kv[1] \notin Keys(props)} \cup props

BagAdd(B, e) ==
    [x \in DOMAIN B \cup {e} |->
        IF x = e THEN (IF e \in DOMAIN B THEN B[e] + 1 ELSE 1) ELSE B[x]]

RECURSIVE BagSum(_, _)
BagSum(B, set) ==
    IF set = {} THEN 0
    ELSE LET x == CHOOSE y \in set : TRUE IN B[x] + BagSum(B, set \ {x})

\* SET x += $props on every matched element of the bag B
SetProps(B, matched, props) ==
    LET upd(x) == IF x \in matched THEN [x EXCEPT !.props = SetPlus(@, props)] ELSE x
    IN [y \in {upd(x) : x \in DOMAIN B} |-> BagSum(B, {x \in DOMAIN B : upd(x) = y})]

VId(v) == (CHOOSE kv \in v.props : kv[1] = "id")[2]

DigitValue == [c \in Digits |-> CHOOSE n \in 0..9 : <<"0","1","2","3","4","5","6","7","8","9">>[n + 1] = c]
DigitChar(n) == <<"0","1","2","3","4","5","6","7","8","9">>[n + 1]

\* a natural below 2^31 from its digits and back
RECURSIVE NatOf(_)
NatOf(digits) ==
    IF digits = <<>> THEN 0
    ELSE 10 * NatOf(SubSeq(digits, 1, Len(digits) - 1)) + DigitValue[digits[Len(digits)]]
RECURSIVE NatDigits(_)
NatDigits(n) == IF n < 10 THEN <<DigitChar(n)>> ELSE NatDigits(n \div 10) \o <<DigitChar(n % 10)>>

IndexOf(str, c) == IF \E i \in DOMAIN str : str[i] = c
                   THEN CHOOSE i \in DOMAIN str : str[i] = c /\ \A j \in 1..(i - 1) : str[j] # c
                   ELSE 0

(* Arithmetic on naturals of any size, written as sequences of decimal
   digits, most significant first; k, carry and rem are naturals below 2^28.
   The operators split their argument in halves, so that the depth of the
   evaluation grows with the logarithm of the length. *)
StripZeros(ds) ==
    IF \A i \in DOMAIN ds : ds[i] = "0" THEN <<"0">>
    ELSE SubSeq(ds, CHOOSE i \in DOMAIN ds : ds[i] # "0" /\ \A j \in 1..(i - 1) : ds[j] = "0",
                Len(ds))

\* k * ds + carry: the Len(ds) low digits and the carry out of them; the low
\* half, whose carry the high half takes in, is evaluated first
MulDigit(t) == [digits |-> <<DigitChar(t % 10)>>, carry |-> t \div 10]
MulJoin(lo, hi) ==
    LET parts == <<lo.digits, hi.digits>>
    IN [digits |-> parts[2] \o parts[1], carry |-> hi.carry]
RECURSIVE MulAdd(_, _, _)
RECURSIVE MulHigh(_, _, _)
MulAdd(ds, k, carry) ==
    IF ds = <<>> THEN [digits |-> <<>>, carry |-> carry]
    ELSE IF Len(ds) = 1 THEN MulDigit(k * DigitValue[ds[1]] + carry)
    ELSE MulHigh(MulAdd(SubSeq(ds, Len(ds) \div 2 + 1, Len(ds)), k, carry),
                 SubSeq(ds, 1, Len(ds) \div 2), k)
MulHigh(lo, high, k) == MulJoin(lo, MulAdd(high, k, lo.carry))
WithCarry(r) == StripZeros((IF r.carry = 0 THEN <<>> ELSE NatDigits(r.carry)) \o r.digits)
Times(ds, k, carry) == WithCarry(MulAdd(ds, k, carry))

\* (rem * 10^Len(ds) + ds) divided by k, rem < k: the Len(ds) digits of the
\* quotient and the remainder
DivDigit(t, k) == [digits |-> <<DigitChar(t \div k)>>, rem |-> t % k]
DivJoin(hi, lo) == [digits |-> hi.digits \o lo.digits, rem |-> lo.rem]
RECURSIVE DivMod(_, _, _)
RECURSIVE DivLow(_, _, _)
DivMod(ds, k, rem) ==
    IF ds = <<>> THEN [digits |-> <<>>, rem |-> rem]
    ELSE IF Len(ds) = 1 THEN DivDigit(10 * rem + DigitValue[ds[1]], k)
    ELSE DivLow(DivMod(SubSeq(ds, 1, Len(ds) \div 2), k, rem),
                SubSeq(ds, Len(ds) \div 2 + 1, Len(ds)), k)
DivLow(hi, low, k) == DivJoin(hi, DivMod(low, k, hi.rem))

\* bits are shifted at most ShiftStep at a time
ShiftStep == 27

\* ds div 2^shift; guard is the last bit shifted out, sticky says that a bit
\* shifted out before it was 1
ShiftOut(d, half) ==
    [q |-> StripZeros(d.digits), guard |-> d.rem >= half, sticky |-> d.rem % half # 0]
ShiftJoin(first, then) ==
    [sticky |-> first.guard \/ first.sticky \/ then.sticky, q |-> then.q, guard |-> then.guard]
RECURSIVE ShiftRight(_, _)
RECURSIVE ShiftOn(_, _)
ShiftRight(ds, shift) ==
    IF shift = 0 THEN [q |-> ds, guard |-> FALSE, sticky |-> FALSE]
    ELSE IF shift <= ShiftStep THEN ShiftOut(DivMod(ds, 2^shift, 0), 2^(shift - 1))
    ELSE ShiftOn(ShiftRight(ds, shift \div 2), shift - shift \div 2)
ShiftOn(first, shift) == ShiftJoin(first, ShiftRight(first.q, shift))

\* ds * 2^shift
RECURSIVE ShiftLeft(_, _)
ShiftLeft(ds, shift) ==
    IF shift = 0 THEN ds
    ELSE IF shift <= ShiftStep THEN Times(ds, 2^shift, 0)
    ELSE ShiftLeft(ShiftLeft(ds, shift \div 2), shift - shift \div 2)

\* ds < 2^53
TwoTo53 == <<"9","0","0","7","1","9","9","2","5","4","7","4","0","9","9","2">>
FitsSignificand(ds) ==
    \/ Len(ds) < Len(TwoTo53)
    \/ /\ Len(ds) = Len(TwoTo53)
       /\ \E i \in 1..Len(ds) : /\ DigitValue[ds[i]] < DigitValue[TwoTo53[i]]
                                 /\ \A j \in 1..(i - 1) : ds[j] = TwoTo53[j]

\* the least number of bits to shift out of ds >= 2^53 for it to fit the
\* significand, which is none of the numbers below low: a number of n digits
\* has more than 3.321 (n - 1) and at most 3.321 (n - 1) + 4 bits
LeastShift(ds, low) ==
    CHOOSE n \in low..(low + 5) :
        /\ n >= 1
        /\ FitsSignificand(ShiftRight(ds, n).q)
        /\ ~FitsSignificand(ShiftRight(ds, n - 1).q)
Odd(ds) == DigitValue[ds[Len(ds)]] % 2 = 1
RoundShifted(r, shift) ==
    ShiftLeft(IF r.guard /\ (r.sticky \/ Odd(r.q)) THEN Times(r.q, 1, 1) ELSE r.q, shift)
RoundAt(ds, shift) == RoundShifted(ShiftRight(ds, shift), shift)

\* The natural with a 53-bit significand that is nearest to ds, ties to the
\* even significand: the exact value of the float that a decimal literal of
\* value ds denotes.
NearestDouble(ds) ==
    IF FitsSignificand(ds) THEN ds
    ELSE RoundAt(ds, LeastShift(ds, ((Len(ds) - 1) * 3321) \div 1000 - 53))

(* The form of a float v, given by its repr: "1.0", "-2.5", "1e+16",
   "1.5e-05", "inf"; nan, which equals nothing, has no form.  body is the
   repr without its sign, e the index of the "e" in it or 0, mant the text
   before the "e", dot the index of the "." in it or 0, int and frac the
   digits before and after the ".", exp the exponent.  The repr holds the
   shortest digits that read back as the float, which from 2^53 on need not
   be the digits of its value (repr "1.801439850948199e+16", value
   18014398509481992): the value is the nearest float to the number the repr
   writes. *)
Signed(v, ds) == N(IF Head(v.s) = "-" /\ ds # <<"0">> THEN <<"-">> \o ds ELSE ds)
WholeDigits(int, frac, exp) ==
    StripZeros(int \o [i \in 1..exp |-> IF i <= Len(frac) THEN frac[i] ELSE "0"])
FloatParts(v, int, frac, exp) ==
    IF \A i \in DOMAIN frac : i > exp => frac[i] = "0"
    THEN Signed(v, NearestDouble(WholeDigits(int, frac, exp)))
    ELSE v
FloatDot(v, mant, dot, exp) ==
    FloatParts(v, IF dot = 0 THEN mant ELSE SubSeq(mant, 1, dot - 1),
               IF dot = 0 THEN <<>> ELSE SubSeq(mant, dot + 1, Len(mant)), exp)
FloatMantissa(v, mant, exp) == FloatDot(v, mant, IndexOf(mant, "."), exp)
FloatExp(v, body, e) ==
    IF e = 0 THEN FloatMantissa(v, body, 0)
    ELSE IF body[e + 1] = "-" THEN v
    ELSE FloatMantissa(v, SubSeq(body, 1, e - 1), NatOf(SubSeq(body, e + 2, Len(body))))
FloatBody(v, body) ==
    CASE body = <<"i","n","f">> -> v
      [] body # <<>> /\ Head(body) \in Digits -> FloatExp(v, body, IndexOf(body, "e"))
FloatValue(v) == FloatBody(v, IF Head(v.s) = "-" THEN Tail(v.s) ELSE v.s)

\* Cypher compares numbers by value: 1 = 1.0.  CypherValue gives every value
\* that equals an integer the form of that integer, so that two values are
\* equal in Cypher exactly when their forms are the same.
CypherValue(v) == IF v.k = "float" THEN FloatValue(v) ELSE v

\* the identity of a vertex as an endpoint of an edge
VKey(v) == [label |-> v.label, id |-> CypherValue(VId(v))]

\* MATCH (x {id: $id}) : every vertex whose id property equals the parameter
MatchById(ns, idv) ==
    IF idv.k = "none" THEN {}
    ELSE {VKey(v) : v \in {w \in DOMAIN ns : CypherValue(VId(w)) = CypherValue(idv)}}

Unchanged(g, raised) == [nodes |-> g.nodes, edges |-> g.edges, raised |-> raised]

\* variant: a matched vertex is removed with its edges (DETACH DELETE) and
\* created anew from the payload
_create_node_recreate(g, obj) ==
    LET tv == Get(obj, "type", S(STIXObject)) IN
    IF tv.k # "str" THEN Unchanged(g, TRUE)
    ELSE IF "id" \notin DOMAIN obj THEN Unchanged(g, TRUE)
    ELSE
    LET label == LabelName(SanitizeLabel(tv.s))
        props == ScalarProps(obj)
        idv == obj["id"]
        matched == {v \in DOMAIN g.nodes :
                       v.label = label /\ CypherValue(VId(v)) = CypherValue(idv)}
        key == [label |-> label, id |-> CypherValue(idv)]
        keptNodes == [v \in DOMAIN g.nodes \ matched |-> g.nodes[v]]
        keptEdges == [e \in {x \in DOMAIN g.edges : x.src # key /\ x.tgt # key} |-> g.edges[e]]
    IN
    IF ~IsIdent(label) \/ idv.k = "none" THEN Unchanged(g, TRUE)
    ELSE [nodes |-> BagAdd(keptNodes, [label |-> label, props |-> SetPlus({<<"id", idv>>}, props)]),
          edges |-> keptEdges, raised |-> FALSE]

\* _create_node: MERGE (n:<label> {id: $id}) SET n += $props
_create_node(g, obj) ==
    LET tv == Get(obj, "type", S(STIXObject)) IN
    IF tv.k # "str" THEN Unchanged(g, TRUE)
    ELSE IF "id" \notin DOMAIN obj THEN Unchanged(g, TRUE)
    ELSE
    LET label == LabelName(SanitizeLabel(tv.s))
        props == ScalarProps(obj)
        idv == obj["id"]
        matched == {v \in DOMAIN g.nodes :
                       v.label = label /\ CypherValue(VId(v)) = CypherValue(idv)}
    IN
    IF ~IsIdent(label) \/ idv.k = "none" THEN Unchanged(g, TRUE)
    ELSE IF matched = {}
    THEN [nodes |-> BagAdd(g.nodes, [label |-> label, props |-> SetPlus({<<"id", idv>>}, props)]),
          edges |-> g.edges, raised |-> FALSE]
    ELSE [nodes |-> SetProps(g.nodes, matched, props), edges |-> g.edges, raised |-> FALSE]

RECURSIVE CreateEdges(_, _, _, _)
\* variant: CREATE (source)-[r]->(target) instead of MERGE
CreateEdges(es, rows, rtype, keyprops) ==
    IF rows = {} THEN es
    ELSE
    LET row == CHOOSE x \in rows : TRUE
    IN CreateEdges(BagAdd(es, [src |-> row[1], tgt |-> row[2], type |-> rtype,
                               props |-> SetPlus(keyprops.key, keyprops.props)]),
                   rows \ {row}, rtype, keyprops)

RECURSIVE MergeEdges(_, _, _, _)
\* MERGE (source)-[r:<type> <key>]->(target) SET r += $props, once per matched row
MergeEdges(es, rows, rtype, keyprops) ==
    IF rows = {} THEN es
    ELSE
    LET row == CHOOSE x \in rows : TRUE
        found == {e \in DOMAIN es :
                    /\ e.src = row[1] /\ e.tgt = row[2] /\ e.type = rtype
                    /\ \A kv \in keyprops.key : \E pv \in e.props :
                          pv[1] = kv[1] /\ CypherValue(pv[2]) = CypherValue(kv[2])}
        es2 == IF found = {}
               THEN BagAdd(es, [src |-> row[1], tgt |-> row[2], type |-> rtype,
                                props |-> SetPlus(keyprops.key, keyprops.props)])
               ELSE SetProps(es, found, keyprops.props)
    IN MergeEdges(es2, rows \ {row}, rtype, keyprops)


\* variant: MERGE (source {id: $source_id}) MERGE (target {id: $target_id}) first,
\* which creates an unlabelled vertex for a missing endpoint
_create_relationship_stub(g, source_id, target_id, rel_type) ==
    LET rtype == SanitizeRelType(rel_type)
        stub(ns, idv) == IF MatchById(ns, idv) = {} /\ idv.k # "none"
                         THEN BagAdd(ns, [label |-> <<>>, props |-> {<<"id", idv>>}])
                         ELSE ns
        ns2 == stub(stub(g.nodes, source_id), target_id)
        rows == MatchById(ns2, source_id) \X MatchById(ns2, target_id)
    IN
    IF ~IsIdent(rtype) THEN Unchanged(g, TRUE)
    ELSE [nodes |-> ns2,
          edges |-> MergeEdges(g.edges, rows, rtype, [key |-> {}, props |-> {}]),
          raised |-> FALSE]

\* variant: an upsert that matched no row raises
_create_relationship_strict(g, source_id, target_id, rel_type) ==
    LET rtype == SanitizeRelType(rel_type)
        rows == MatchById(g.nodes, source_id) \X MatchById(g.nodes, target_id)
    IN
    IF ~IsIdent(rtype) \/ rows = {} THEN Unchanged(g, TRUE)
    ELSE [nodes |-> g.nodes,
          edges |-> MergeEdges(g.edges, rows, rtype, [key |-> {}, props |-> {}]),
          raised |-> FALSE]

\* _create_relationship: MATCH source, MATCH target, MERGE (source)-[r:<type>]->(target)
_create_relationship(g, source_id, target_id, rel_type) ==
    LET rtype == SanitizeRelType(rel_type)
        rows == MatchById(g.nodes, source_id) \X MatchById(g.nodes, target_id)
    IN
    IF ~IsIdent(rtype) THEN Unchanged(g, TRUE)
    ELSE [nodes |-> g.nodes,
          edges |-> MergeEdges(g.edges, rows, rtype, [key |-> {}, props |-> {}]),
          raised |-> FALSE]

\* variant: MERGE (source {id: $source_id}) MERGE (target {id: $target_id})
\* instead of the two MATCH clauses, which creates an unlabelled vertex for a
\* missing endpoint
_create_stix_relationship_merge(g, source_id, target_id, rel_type, relationship_id, props) ==
    LET rtype == SanitizeRelType(rel_type)
        stub(ns, idv) == IF MatchById(ns, idv) = {} /\ idv.k # "none"
                         THEN BagAdd(ns, [label |-> <<>>, props |-> {<<"id", idv>>}])
                         ELSE ns
        ns2 == stub(stub(g.nodes, source_id), target_id)
        rows == MatchById(ns2, source_id) \X MatchById(ns2, target_id)
    IN
    IF ~IsIdent(rtype) THEN Unchanged(g, TRUE)
    ELSE IF rows # {} /\ relationship_id.k = "none" THEN Unchanged(g, TRUE)
    ELSE [nodes |-> ns2,
          edges |-> MergeEdges(g.edges, rows, rtype,
                               [key |-> {<<"id", relationship_id>>}, props |-> props]),
          raised |-> FALSE]

\* _create_stix_relationship:
\* MATCH source, MATCH target, MERGE (source)-[r:<type> {id: $relationship_id}]->(target)
\* SET r += $props
_create_stix_relationship(g, source_id, target_id, rel_type, relationship_id, props) ==
    LET rtype == SanitizeRelType(rel_type)
        rows == MatchById(g.nodes, source_id) \X MatchById(g.nodes, target_id)
    IN
    IF ~IsIdent(rtype) THEN Unchanged(g, TRUE)
    ELSE IF rows # {} /\ relationship_id.k = "none" THEN Unchanged(g, TRUE)
    ELSE [nodes |-> g.nodes,
          edges |-> MergeEdges(g.edges, rows, rtype,
                               [key |-> {<<"id", relationship_id>>}, props |-> props]),
          raised |-> FALSE]

(* ---------------- Neo4jHandler.load_stix_object ---------------- *)
\* session.execute_write(fn, ...): one transaction of its own.  F is the set
\* of write slots of this processing that the store rejects; a rejected or
\* raising transaction is rolled back and the exception propagates.
execute_write(g, slot, F, result) ==
    IF slot \in F THEN Unchanged(g, TRUE) ELSE result

Graph(r) == [nodes |-> r.nodes, edges |-> r.edges]

\* the items a for-loop over the decoded value visits
IterItems(v) ==
    CASE v.k = "list" -> [i \in 1..Len(v.l) |-> S(v.l[i])]
      [] v.k = "str" -> [i \in 1..Len(v.s) |-> S(<<v.s[i]>>)]
      [] OTHER -> <<>>

Iterable(v) == v.k \in {"list", "str"}

RECURSIVE RefLoopAbort(_, _, _, _, _, _, _)
\* variant: one try around the whole loop, the first failed upsert ends it
RefLoopAbort(g, source_id, refs, i, F, writes, errors) ==
    IF i > Len(refs)
    THEN [nodes |-> g.nodes, edges |-> g.edges, writes |-> writes, errors |-> errors]
    ELSE
    LET r == execute_write(g, i + 1, F,
                           _create_relationship(g, source_id, refs[i], REFERENCES))
        w == [op |-> "ref", ref |-> refs[i], ok |-> ~r.raised,
              rejected |-> (i + 1) \in F, changed |-> Graph(r) # g]
    IN IF r.raised
       THEN [nodes |-> g.nodes, edges |-> g.edges, writes |-> Append(writes, w),
             errors |-> Append(errors, "ref")]
       ELSE RefLoopAbort(Graph(r), source_id, refs, i + 1, F, Append(writes, w), errors)

RECURSIVE RefLoop(_, _, _, _, _, _, _)
\* for ref_id in stix_obj["object_refs"]: try execute_write(_create_relationship ...)
\* except: log and go on with the next ref_id
RefLoop(g, source_id, refs, i, F, writes, errors) ==
    IF i > Len(refs)
    THEN [nodes |-> g.nodes, edges |-> g.edges, writes |-> writes, errors |-> errors]
    ELSE
    LET r == execute_write(g, i + 1, F,
                           _create_relationship(g, source_id, refs[i], REFERENCES))
        w == [op |-> "ref", ref |-> refs[i], ok |-> ~r.raised,
              rejected |-> (i + 1) \in F, changed |-> Graph(r) # g]
    IN RefLoop(Graph(r), source_id, refs, i + 1, F, Append(writes, w),
               IF r.raised THEN Append(errors, "ref") ELSE errors)

load_stix_object(g, stix_obj, F) ==
    LET obj_type == Get(stix_obj, "type", S(<<>>))
        isRel == obj_type = S(Relationship)
        n == execute_write(g, 1, F, _create_node(g, stix_obj))
        nw == [op |-> "node", ref |-> None, ok |-> ~n.raised,
               rejected |-> 1 \in F, changed |-> Graph(n) # g]
        source_ref == Get(stix_obj, "source_ref", None)
        target_ref == Get(stix_obj, "target_ref", None)
        rt == Get(stix_obj, "relationship_type", S(RELATED_TO))
        e == execute_write(g, 1, F,
                 _create_stix_relationship(g, source_ref, target_ref, Upper(rt.s),
                                           Get(stix_obj, "id", None),
                                           ScalarProps(stix_obj)))
        ew == [op |-> "rel", ref |-> target_ref, ok |-> ~e.raised,
               rejected |-> 1 \in F, changed |-> Graph(e) # g]
    IN
    IF ~isRel /\ n.raised
    THEN [nodes |-> g.nodes, edges |-> g.edges, writes |-> <<nw>>, errors |-> <<"outer">>]
    ELSE IF obj_type = S(Report) /\ "object_refs" \in DOMAIN stix_obj
    THEN IF Iterable(stix_obj["object_refs"])
         THEN RefLoop(Graph(n), stix_obj["id"], IterItems(stix_obj["object_refs"]),
                      1, F, <<nw>>, <<>>)
         ELSE [nodes |-> n.nodes, edges |-> n.edges, writes |-> <<nw>>,
               errors |-> <<"outer">>]
    ELSE IF isRel
    THEN IF rt.k # "str"
         THEN [nodes |-> g.nodes, edges |-> g.edges, writes |-> <<>>, errors |-> <<"outer">>]
         ELSE IF Truthy(source_ref) /\ Truthy(target_ref)
         THEN [nodes |-> e.nodes, edges |-> e.edges, writes |-> <<ew>>,
               errors |-> IF e.raised THEN <<"rel">> ELSE <<>>]
         ELSE [nodes |-> g.nodes, edges |-> g.edges, writes |-> <<>>, errors |-> <<>>]
    ELSE [nodes |-> n.nodes, edges |-> n.edges, writes |-> <<nw>>, errors |-> <<>>]

\* the number of execute_write calls a processing of the record can make
WriteSlots(stix_obj) ==
    IF Get(stix_obj, "type", S(<<>>)) = S(Relationship)
    THEN IF /\ Get(stix_obj, "relationship_type", S(RELATED_TO)).k = "str"
            /\ Truthy(Get(stix_obj, "source_ref", None))
            /\ Truthy(Get(stix_obj, "target_ref", None))
         THEN 1 ELSE 0
    ELSE IF /\ Get(stix_obj, "type", S(<<>>)) = S(Report)
            /\ "object_refs" \in DOMAIN stix_obj
            /\ "id" \in DOMAIN stix_obj /\ stix_obj["id"].k # "none"
    THEN 1 + Len(IterItems(stix_obj["object_refs"]))
    ELSE 1

(* ---------------- records of the feed ---------------- *)
I1 == <<"i","1">>
I2 == <<"i","2">>
R1 == <<"r","1">>
E1 == <<"e","1">>
E2 == <<"e","2">>
E3 == <<"e","3">>
Indicator == <<"i","n","d","i","c","a","t","o","r">>
ThreatActor == <<"t","h","r","e","a","t","-","a","c","t","o","r">>
RelatedTo == <<"r","e","l","a","t","e","d","-","t","o">>
Uses == <<"u","s","e","s">>

ind1a == [id |-> S(I1), type |-> S(Indicator), name |-> S(<<"x">>),
          labels |-> L(<<<<"m">>>>)]
ind1b == [id |-> S(I1), type |-> S(Indicator), name |-> S(<<"z">>), pattern |-> S(<<"y">>)]
ta1 == [id |-> S(I1), type |-> S(ThreatActor)]
ind2 == [id |-> S(I2), type |-> S(Indicator), confidence |-> N(<<"7">>)]
rep1 == [id |-> S(R1), type |-> S(Report), object_refs |-> L(<<I1, I2>>)]
rel1 == [id |-> S(E1), type |-> S(Relationship), source_ref |-> S(I1),
         target_ref |-> S(I2), relationship_type |-> S(RelatedTo)]
rel2 == [id |-> S(E2), type |-> S(Relationship), source_ref |-> S(I1),
         target_ref |-> S(I2), relationship_type |-> S(RelatedTo)]
rel1uses == [id |-> S(E1), type |-> S(Relationship), source_ref |-> S(I1),
             target_ref |-> S(I2), relationship_type |-> S(Uses)]
relNoTarget == [id |-> S(E3), type |-> S(Relationship), source_ref |-> S(I1)]
noId == [type |-> S(Indicator)]

EntityRecords == {ind1a, ind1b, ta1, ind2, rep1, noId}
RelationshipRecords == {rel1, rel2, rel1uses, relNoTarget}
Records == EntityRecords \cup RelationshipRecords

NoRecord == [none |-> None]
NoName == [input |-> <<>>, label |-> <<>>, reltype |-> <<>>, done |-> FALSE]
NoUrl == <<>>

(* ---------------- the store driven directly ---------------- *)
TheGraph == [nodes |-> nodes, edges |-> edges]

\* history bookkeeping shared by every call of load_stix_object
Called(stix_obj, F, res) ==
    /\ nodes' = res.nodes
    /\ edges' = res.edges
    /\ lastRec' = stix_obj
    /\ lastWrites' = res.writes
    /\ streak' = IF F # {} THEN 0
                  ELSE IF stix_obj = lastRec /\ streak > 0
                       THEN (IF streak < MaxRepeat THEN streak + 1 ELSE streak)
                       ELSE 1

\* any caller hands any record to Neo4jHandler.load_stix_object
StoreLoad(stix_obj, F) ==
    /\ Called(stix_obj, F, load_stix_object(TheGraph, stix_obj, F))
    /\ UNCHANGED <<loopVars, san>>

StoreInit ==
    /\ nodes = EmptyBag
    /\ edges = EmptyBag
    /\ lastRec = NoRecord
    /\ lastWrites = <<>>
    /\ streak = 0
    /\ pc = "handler"
    /\ current_url = NoUrl
    /\ all_objects = <<>>
    /\ requests = <<>>
    /\ responses = <<>>
    /\ idx = 0
    /\ cycleStart = [nodes |-> EmptyBag, edges |-> EmptyBag]
    /\ slept = 0
    /\ san = NoName

StoreNext == \E stix_obj \in Records : \E F \in SUBSET (1..WriteSlots(stix_obj)) :
                StoreLoad(stix_obj, F)

SpecStore == StoreInit /\ [][StoreNext]_vars

(* ---------------- the two name sanitizers side by side ---------------- *)
NameChars == {"a", "-", " ", "_"}
Names == UNION {[1..n -> NameChars] : n \in 0..MaxNameLen}

\* the label expression of _create_node and the rel_type expression of
\* _create_relationship / _create_stix_relationship applied to one name
Sanitize ==
    /\ ~san.done
    /\ san' = [input |-> san.input,
               label |-> SanitizeLabel(san.input),
               reltype |-> SanitizeRelType(san.input),
               done |-> TRUE]
    /\ UNCHANGED <<nodes, edges, lastRec, lastWrites, streak, loopVars>>

SanitizeInit ==
    /\ nodes = EmptyBag
    /\ edges = EmptyBag
    /\ lastRec = NoRecord
    /\ lastWrites = <<>>
    /\ streak = 0
    /\ pc = "handler"
    /\ current_url = NoUrl
    /\ all_objects = <<>>
    /\ requests = <<>>
    /\ responses = <<>>
    /\ idx = 0
    /\ cycleStart = [nodes |-> EmptyBag, edges |-> EmptyBag]
    /\ slept = 0
    /\ \E name \in Names : san = [NoName EXCEPT !.input = name]

SpecSanitize == SanitizeInit /\ [][Sanitize]_vars

(* ---------------- the store driven with records of every role ---------------- *)
N1 == <<"n","1">>
Note == <<"n","o","t","e">>
note1 == [id |-> S(N1), type |-> S(Note), object_refs |-> L(<<I1>>)]
relEmptySource == [id |-> S(E3), type |-> S(Relationship), source_ref |-> S(<<>>),
                   target_ref |-> S(I2), relationship_type |-> S(RelatedTo)]

RoleRecords == {ind1a, ind2, rep1, note1, rel1, relNoTarget, relEmptySource}

RolesNext == \E stix_obj \in RoleRecords : \E F \in SUBSET (1..WriteSlots(stix_obj)) :
                StoreLoad(stix_obj, F)

SpecRoles == StoreInit /\ [][RolesNext]_vars

(* ---------------- fetch_stix_objects ---------------- *)
\* variant: the token is appended to the URL of the request just made
NextUrlAppended(next_token) == current_url \o <<"?","n","e","x","t","=">> \o PyStr(next_token)

\* f"{TAXII_BASE_URL}?next={next_token}"
NextUrl(next_token) == TAXII_BASE_URL \o <<"?","n","e","x","t","=">> \o PyStr(next_token)

\* has_more and next_token
Continues(response) ==
    Truthy(Get(response, "more", Bool(FALSE))) /\ Truthy(Get(response, "next", None))

PageObjects(response) ==
    IF "objects" \in DOMAIN response THEN response["objects"] ELSE <<>>

\* the locals of a fresh call: all_objects = [], current_url = TAXII_BASE_URL
FetchCall ==
    /\ pc' = "fetching"
    /\ current_url' = TAXII_BASE_URL
    /\ all_objects' = <<>>
    /\ requests' = <<>>
    /\ responses' = <<>>
    /\ idx' = 0
    /\ cycleStart' = TheGraph
    /\ slept' = 0

\* variant: the fetcher remembers the urls it requested and ends the walk
\* when the next url is one of them
FetchPageRemembering(response, cap) ==
    /\ pc = "fetching"
    /\ current_url # NoUrl
    /\ Len(requests) + 1 >= cap => ~Continues(response)
    /\ requests' = Append(requests, current_url)
    /\ responses' = Append(responses, response)
    /\ all_objects' = all_objects \o PageObjects(response)
    /\ IF Continues(response)
          /\ \A i \in DOMAIN requests' : requests'[i] # NextUrl(response["next"])
       THEN /\ current_url' = NextUrl(response["next"])
            /\ pc' = "fetching"
            /\ idx' = idx
       ELSE /\ current_url' = NoUrl
            /\ pc' = "processing"
            /\ idx' = 1
    /\ UNCHANGED <<nodes, edges, lastRec, lastWrites, streak, cycleStart, slept, san>>

\* one iteration of the while loop: GET current_url answered by response;
\* the walk ends, and main goes on to its for-loop, when there is no next page
FetchPage(response, cap) ==
    /\ pc = "fetching"
    /\ current_url # NoUrl
    /\ Len(requests) + 1 >= cap => ~Continues(response)
    /\ requests' = Append(requests, current_url)
    /\ responses' = Append(responses, response)
    /\ all_objects' = all_objects \o PageObjects(response)
    /\ IF Continues(response)
       THEN /\ current_url' = NextUrl(response["next"])
            /\ pc' = "fetching"
            /\ idx' = idx
       ELSE /\ current_url' = NoUrl
            /\ pc' = "processing"
            /\ idx' = 1
    /\ UNCHANGED <<nodes, edges, lastRec, lastWrites, streak, cycleStart, slept, san>>

\* variant: the failure is swallowed inside the fetcher, which returns the
\* pages it already has
FetchFailPartial ==
    /\ pc = "fetching"
    /\ current_url # NoUrl
    /\ requests' = Append(requests, current_url)
    /\ current_url' = NoUrl
    /\ pc' = "processing"
    /\ idx' = 1
    /\ UNCHANGED <<nodes, edges, lastRec, lastWrites, streak, responses, all_objects,
                   cycleStart, slept, san>>

\* variant: the except branch of the loop body retries at once, without sleeping
FetchFailNoSleep ==
    /\ pc = "fetching"
    /\ current_url # NoUrl
    /\ requests' = Append(requests, current_url)
    /\ all_objects' = <<>>
    /\ current_url' = NoUrl
    /\ pc' = "sleep_error"
    /\ UNCHANGED <<nodes, edges, lastRec, lastWrites, streak, responses, idx, cycleStart,
                   slept, san>>

\* requests.get(...) or .json() raises: the exception leaves fetch_stix_objects
\* (its locals are gone) and is caught by the except of main's loop body,
\* which logs and sleeps
FetchFail ==
    /\ pc = "fetching"
    /\ current_url # NoUrl
    /\ requests' = Append(requests, current_url)
    /\ all_objects' = <<>>
    /\ current_url' = NoUrl
    /\ pc' = "sleep_error"
    /\ slept' = slept + POLL_INTERVAL_SECONDS
    /\ UNCHANGED <<nodes, edges, lastRec, lastWrites, streak, responses, idx, cycleStart,
                   san>>

(* ---------------- main ---------------- *)
\* variant: a rejected write escapes load_stix_object and ends the cycle in
\* the except branch of the loop body
ProcessRecordAbort ==
    /\ pc = "processing"
    /\ idx <= Len(all_objects)
    /\ \E F \in SUBSET (1..WriteSlots(all_objects[idx])) :
          /\ Called(all_objects[idx], F, load_stix_object(TheGraph, all_objects[idx], F))
          /\ IF F = {}
             THEN idx' = idx + 1 /\ pc' = pc /\ slept' = slept
             ELSE idx' = idx /\ pc' = "sleep_error"
                  /\ slept' = slept + POLL_INTERVAL_SECONDS
    /\ UNCHANGED <<current_url, all_objects, requests, responses, cycleStart, san>>

\* for obj in stix_objects['objects']: neo4j.load_stix_object(obj)
ProcessRecord ==
    /\ pc = "processing"
    /\ idx <= Len(all_objects)
    /\ \E F \in SUBSET (1..WriteSlots(all_objects[idx])) :
          Called(all_objects[idx], F, load_stix_object(TheGraph, all_objects[idx], F))
    /\ idx' = idx + 1
    /\ UNCHANGED <<pc, current_url, all_objects, requests, responses, cycleStart,
                   slept, san>>

\* the for-loop is exhausted: time.sleep(POLL_INTERVAL_SECONDS)
Sleep ==
    /\ pc = "processing"
    /\ idx > Len(all_objects)
    /\ pc' = "sleep"
    /\ slept' = slept + POLL_INTERVAL_SECONDS
    /\ UNCHANGED <<nodes, edges, lastRec, lastWrites, streak,
                   current_url, all_objects, requests, responses, idx, cycleStart, san>>

\* time.sleep returns: the while True loop calls fetch_stix_objects again
Wake ==
    /\ pc \in {"sleep", "sleep_error"}
    /\ FetchCall
    /\ UNCHANGED <<nodes, edges, lastRec, lastWrites, streak, san>>

Tokens == {<<"a">>, <<"b">>}

\* the pages a feed can answer with
PageLists(recs) == {<<>>} \cup {<<r>> : r \in recs}
ResponsesOver(recs, tokens) ==
    {[objects |-> o] : o \in PageLists(recs)}
    \cup {[more |-> Bool(m)] : m \in BOOLEAN}
    \cup {[objects |-> o, more |-> Bool(m)] : o \in PageLists(recs), m \in BOOLEAN}
    \cup {[objects |-> o, next |-> S(t)] : o \in PageLists(recs), t \in tokens}
    \cup {[objects |-> o, more |-> Bool(m), next |-> S(t)] :
             o \in PageLists(recs), m \in BOOLEAN, t \in tokens \cup {<<>>}}

FetchResponses == ResponsesOver({ind1a, rep1}, Tokens)
LoopResponses == {[objects |-> o, more |-> Bool(m), next |-> S(<<"a">>)] :
                     o \in PageLists({ind1a, ind2, rep1}), m \in BOOLEAN}

Init ==
    /\ nodes = EmptyBag
    /\ edges = EmptyBag
    /\ lastRec = NoRecord
    /\ lastWrites = <<>>
    /\ streak = 0
    /\ pc = "fetching"
    /\ current_url = TAXII_BASE_URL
    /\ all_objects = <<>>
    /\ requests = <<>>
    /\ responses = <<>>
    /\ idx = 0
    /\ cycleStart = [nodes |-> EmptyBag, edges |-> EmptyBag]
    /\ slept = 0
    /\ san = NoName

Next ==
    \/ \E response \in LoopResponses : FetchPage(response, MaxCyclePages)
    \/ FetchFail
    \/ ProcessRecord
    \/ Sleep
    \/ Wake

Spec == Init /\ [][Next]_vars

\* The program is one thread that runs whenever it can: the feed answers each
\* request (with a page or with a failure), each store call returns, each
\* sleep ends.  Whether a request fails is up to the feed, so FetchFail is
\* not required to happen.  ProcessRecord always advances idx, so it is
\* enabled exactly when its two guards hold, and weak fairness of it is
\* written out in that form.
Fairness ==
    /\ WF_vars(\E response \in LoopResponses : FetchPage(response, MaxCyclePages))
    /\ ([]<>~(pc = "processing" /\ idx <= Len(all_objects))) \/ ([]<><<ProcessRecord>>_vars)
    /\ WF_vars(Sleep)
    /\ WF_vars(Wake)

SpecLive == Init /\ [][Next]_vars /\ Fairness

(* ---------------- the loop over feeds with longer chains of pages ---------------- *)
\* every chain the feed serves ends: at the latest its page number
\* MaxWalkPages has no next page.  Tokens may repeat along a chain.
WalkResponses ==
    {[objects |-> o, more |-> Bool(m), next |-> S(t)] :
        o \in PageLists({ind2}), m \in BOOLEAN, t \in {<<>>, <<"a">>}}
    \cup {[objects |-> o, next |-> S(<<"a">>)] : o \in PageLists({ind2})}
    \cup {[objects |-> o, more |-> Bool(TRUE)] : o \in PageLists({ind2})}

WalkNext ==
    \/ \E response \in WalkResponses : FetchPage(response, MaxWalkPages)
    \/ FetchFail
    \/ ProcessRecord
    \/ Sleep
    \/ Wake

WalkFairness ==
    /\ WF_vars(\E response \in WalkResponses : FetchPage(response, MaxWalkPages))
    /\ ([]<>~(pc = "processing" /\ idx <= Len(all_objects))) \/ ([]<><<ProcessRecord>>_vars)
    /\ WF_vars(Sleep)
    /\ WF_vars(Wake)

SpecWalk == Init /\ [][WalkNext]_vars /\ WalkFairness

(* ---------------- the loop with a store that rejects nothing ---------------- *)
ProcessReliably ==
    /\ pc = "processing"
    /\ idx <= Len(all_objects)
    /\ Called(all_objects[idx], {}, load_stix_object(TheGraph, all_objects[idx], {}))
    /\ idx' = idx + 1
    /\ UNCHANGED <<pc, current_url, all_objects, requests, responses, cycleStart,
                   slept, san>>

\* the feed of this loop also delivers a note that lists i1
ReliableResponses ==
    LoopResponses \cup {[objects |-> <<note1>>, more |-> Bool(m), next |-> S(<<"a">>)] :
                           m \in BOOLEAN}

NextReliable ==
    \/ \E response \in ReliableResponses : FetchPage(response, MaxCyclePages)
    \/ FetchFail
    \/ ProcessReliably
    \/ Sleep
    \/ Wake

SpecReliable == Init /\ [][NextReliable]_vars

(* ---------------- the fetcher called on its own ---------------- *)
\* fetch_stix_objects with a caller that does nothing but call it.  Here
\* pc = "processing" says that the call has returned {'objects': all_objects}
\* and pc = "raised" that an exception has left it.

\* requests.get(current_url) or .json() raises (line 137): the exception
\* leaves fetch_stix_objects, whose locals are gone; nothing sleeps
FetchRaise ==
    /\ pc = "fetching"
    /\ current_url # NoUrl
    /\ requests' = Append(requests, current_url)
    /\ all_objects' = <<>>
    /\ current_url' = NoUrl
    /\ pc' = "raised"
    /\ UNCHANGED <<nodes, edges, lastRec, lastWrites, streak, responses, idx, cycleStart,
                   slept, san>>

\* the caller calls fetch_stix_objects again after it returned or raised
FetchAgain ==
    /\ pc \in {"processing", "raised"}
    /\ FetchCall
    /\ UNCHANGED <<nodes, edges, lastRec, lastWrites, streak, san>>

FetchNext ==
    \/ \E response \in FetchResponses : FetchPage(response, MaxPages)
    \/ FetchRaise
    \/ FetchAgain

SpecFetch == Init /\ [][FetchNext]_vars

(* ======================= properties ======================= *)
PropOf(props, key) == (CHOOSE kv \in props : kv[1] = key)[2]
HasVertex(label, idchars) ==
    \E v \in DOMAIN nodes : v.label = label /\ VId(v) = S(idchars)
HasEdge(slabel, sid, tlabel, tid, rtype) ==
    \E e \in DOMAIN edges :
        /\ e.src = [label |-> slabel, id |-> S(sid)]
        /\ e.tgt = [label |-> tlabel, id |-> S(tid)]
        /\ e.type = rtype

\* C1: one transaction per record: no processing leaves the record's node
\* write committed while an edge write of the same processing was rejected.
C1_SingleTransaction ==
    ~(\E i, j \in DOMAIN lastWrites :
        /\ lastWrites[i].op = "node" /\ lastWrites[i].ok
        /\ lastWrites[j].op \in {"ref", "rel"} /\ ~lastWrites[j].ok)

\* C2: idempotence: delivering the record just delivered once more, with no
\* write failure in either delivery, leaves vertices, edges and all their
\* properties exactly as they were after the first delivery.
C2_Idempotent ==
    [][(streak' >= 2 /\ lastRec' = lastRec) => (nodes' = nodes /\ edges' = edges)]_vars

C2_Witness ==
    /\ streak = MaxRepeat
    /\ lastRec = rep1
    /\ HasEdge(Report, R1, Indicator, I1, REFERENCES)
    /\ HasEdge(Report, R1, Indicator, I2, REFERENCES)

\* C3: vertex key uniqueness: at most one vertex per id value.
C3_VertexKeyUnique ==
    \A v, w \in DOMAIN nodes : (VId(v) = VId(w)) => (v = w /\ nodes[v] = 1)

\* C4: property merge: an upsert of a record whose (label, id) vertex exists
\* leaves that vertex with the old properties overridden key by key by the
\* scalar properties of the payload; keys absent from the payload keep their
\* old value.
C4_PropertyMerge ==
    [][\A v \in DOMAIN nodes :
         ( /\ Len(lastWrites') >= 1
           /\ lastWrites'[1].op = "node" /\ lastWrites'[1].ok
           /\ v.label = Replace(lastRec'["type"].s, "-", "_")
           /\ VId(v) = lastRec'["id"] )
         => \E w \in DOMAIN nodes' :
               /\ w.label = v.label
               /\ VId(w) = VId(v)
               /\ Keys(w.props) = Keys(v.props) \cup {k \in DOMAIN lastRec' : IsScalar(lastRec'[k])}
               /\ \A k \in Keys(w.props) :
                     PropOf(w.props, k) =
                        IF k \in DOMAIN lastRec' /\ IsScalar(lastRec'[k])
                        THEN lastRec'[k] ELSE PropOf(v.props, k)
      ]_vars

\* name x came from one payload, pattern y from another that set name z
C4_Witness ==
    \E v \in DOMAIN nodes :
        /\ v.label = Indicator /\ VId(v) = S(I1)
        /\ <<"name", S(<<"x">>)>> \in v.props
        /\ <<"pattern", S(<<"y">>)>> \in v.props
        /\ lastRec = ind1a

\* C5: relationship identity: the graph never holds two edges carrying the
\* same relationship record id.
C5_OneEdgePerRelationshipId ==
    \A e, f \in DOMAIN edges :
        ("id" \in Keys(e.props) /\ "id" \in Keys(f.props)
            /\ PropOf(e.props, "id") = PropOf(f.props, "id"))
        => (e = f /\ edges[e] = 1)

\* C6: reference-edge uniqueness: at most one REFERENCES edge per
\* (source id, target id) pair.
C6_ReferenceEdgeUnique ==
    \A e, f \in DOMAIN edges :
        (e.type = REFERENCES /\ f.type = REFERENCES
            /\ e.src.id = f.src.id /\ e.tgt.id = f.tgt.id)
        => (e = f /\ edges[e] = 1)

RECURSIVE Deliver(_, _)
\* the records of a sequence processed one after the other, no write failure
Deliver(g, recs) ==
    IF recs = <<>> THEN g
    ELSE Deliver(Graph(load_stix_object(g, Head(recs), {})), Tail(recs))

EdgeRecords == {rep1, rel1, rel2, rel1uses}
EndpointIds(E) ==
    IF "object_refs" \in DOMAIN E
    THEN {S(E["object_refs"].l[i]) : i \in 1..Len(E["object_refs"].l)}
    ELSE {E[f] : f \in {"source_ref", "target_ref"} \cap DOMAIN E}
EndpointRecords(E) ==
    {r \in EntityRecords : "id" \in DOMAIN r /\ r["id"] \in EndpointIds(E)}

NoOrphanNoDuplicate(g) ==
    \A e \in DOMAIN g.edges :
        /\ g.edges[e] = 1
        /\ \E v \in DOMAIN g.nodes : VKey(v) = e.src
        /\ \E v \in DOMAIN g.nodes : VKey(v) = e.tgt

\* C7: order-independence: from a graph without the endpoint vertices of an
\* edge-producing record E, "E, endpoint records, E" ends in the same graph as
\* "endpoint records, E", without orphan or duplicate edges.
C7_OrderIndependent ==
    \A E \in EdgeRecords :
        (\A i \in EndpointIds(E) : MatchById(nodes, i) = {})
        => \A p1, p2 \in EndpointRecords(E) :
              /\ Deliver(TheGraph, <<E, p1, p2, E>>) = Deliver(TheGraph, <<p1, p2, E>>)
              /\ NoOrphanNoDuplicate(Deliver(TheGraph, <<E, p1, p2, E>>))

\* E = rep1 has been processed while neither i1 nor i2 has a vertex
C7_Witness ==
    /\ lastRec = rep1
    /\ Len(lastWrites) = 3 /\ \A i \in 1..3 : lastWrites[i].ok
    /\ HasVertex(Report, R1)
    /\ MatchById(nodes, S(I1)) = {} /\ MatchById(nodes, S(I2)) = {}

IdValues == {S(I1), S(I2), S(R1)}

\* C8: a reference-edge upsert with a missing source or target vertex raises
\* nothing and leaves the whole graph unchanged.
C8_RefUpsertNoOp ==
    /\ \A s, t \in IdValues :
          (MatchById(nodes, s) = {} \/ MatchById(nodes, t) = {})
          => _create_relationship(TheGraph, s, t, REFERENCES) = Unchanged(TheGraph, FALSE)
    /\ \A i \in DOMAIN lastWrites :
          (lastWrites[i].op = "ref" /\ ~lastWrites[i].rejected
              /\ MatchById(nodes, lastWrites[i].ref) = {})
          => (lastWrites[i].ok /\ ~lastWrites[i].changed)

\* rep1 processed with i1 present and i2 missing: the second upsert was a no-op
C8_Witness ==
    /\ lastRec = rep1 /\ Len(lastWrites) = 3
    /\ lastWrites[2].changed
    /\ lastWrites[3].ref = S(I2) /\ lastWrites[3].ok /\ ~lastWrites[3].changed
    /\ MatchById(nodes, S(I2)) = {}

RECURSIVE ConcatPages(_)
ConcatPages(rs) ==
    IF rs = <<>> THEN <<>>
    ELSE (IF "objects" \in DOMAIN Head(rs) THEN Head(rs)["objects"] ELSE <<>>)
         \o ConcatPages(Tail(rs))

HasMoreAndToken(r) ==
    /\ "more" \in DOMAIN r /\ r["more"] = Bool(TRUE)
    /\ "next" \in DOMAIN r /\ r["next"].k = "str" /\ r["next"].s # <<>>

\* C9: pagination completeness: the first request goes to the base URL; request
\* i+1 is issued exactly when response i has more = true and a non-empty next
\* token, to the base URL with that token; a walk over k pages issues k
\* requests and returns the k object lists concatenated in page order.
C9_Pagination ==
    /\ Len(requests) >= 1 => requests[1] = TAXII_BASE_URL
    /\ Len(responses) <= Len(requests) /\ Len(requests) <= Len(responses) + 1
    /\ \A i \in 2..Len(requests) :
          /\ HasMoreAndToken(responses[i - 1])
          /\ requests[i] = TAXII_BASE_URL \o <<"?","n","e","x","t","=">>
                                          \o responses[i - 1]["next"].s
    /\ (pc = "fetching" /\ Len(responses) >= 1)
          => /\ HasMoreAndToken(responses[Len(responses)])
             /\ current_url = TAXII_BASE_URL \o <<"?","n","e","x","t","=">>
                                             \o responses[Len(responses)]["next"].s
    /\ pc = "processing"
          => /\ ~HasMoreAndToken(responses[Len(responses)])
             /\ Len(requests) = Len(responses)
             /\ all_objects = ConcatPages(responses)

\* a walk over three pages, tokens a then b, that returned three records
C9_Witness ==
    /\ pc = "processing"
    /\ Len(requests) = 3
    /\ requests[2] = TAXII_BASE_URL \o <<"?","n","e","x","t","=","a">>
    /\ requests[3] = TAXII_BASE_URL \o <<"?","n","e","x","t","=","b">>
    /\ all_objects = <<ind1a, rep1, ind1a>>

\* C10: a transport failure on any page aborts the cycle: the pages already
\* fetched are discarded, the graph is as it was when the cycle began, and
\* the loop is sleeping, from where the next cycle can start.
C10_TransportFailureAbortsCycle ==
    /\ [][(pc = "fetching" /\ Len(requests') = Len(requests) + 1 /\ responses' = responses)
           => /\ pc' = "sleep_error"
              /\ all_objects' = <<>>
              /\ nodes' = nodes /\ edges' = edges
              /\ cycleStart = [nodes |-> nodes', edges |-> edges']
         ]_vars
    /\ [](pc = "sleep_error" => ENABLED Wake)

\* the second page of a cycle failed after a record had been fetched, in a
\* cycle that began with a non-empty graph
C10_Witness ==
    /\ pc = "sleep_error"
    /\ Len(requests) = 2 /\ Len(responses) = 1
    /\ responses[1]["objects"] = <<rep1>>
    /\ all_objects = <<>>
    /\ HasVertex(Indicator, I1)

\* C11: the loop alternates fetching -> sleeping -> fetching and never stops;
\* every cycle, however it ended, is followed by exactly one sleep of
\* POLL_INTERVAL_SECONDS before the first request of the next cycle, and no
\* request is issued while records of a cycle are still to be processed.
C11_SyncLoop ==
    /\ [][ /\ pc = "fetching" => pc' \in {"fetching", "processing", "sleep_error"}
           /\ pc = "processing" => pc' \in {"processing", "sleep"}
           /\ pc \in {"sleep", "sleep_error"} => pc' = "fetching"
           /\ (pc # "fetching" /\ pc' = "fetching")
                 => (slept = POLL_INTERVAL_SECONDS /\ requests' = <<>>)
           /\ (pc = "processing" /\ pc' # "processing") => idx > Len(all_objects)
           /\ Len(requests') > Len(requests) => pc = "fetching"
         ]_vars
    /\ []<>(pc = "fetching")
    /\ []<>(pc \in {"sleep", "sleep_error"})
    /\ [](slept = IF pc \in {"sleep", "sleep_error"} THEN POLL_INTERVAL_SECONDS ELSE 0)

\* the loop sleeps after a second, two-record cycle
C11_Witness ==
    /\ pc = "sleep"
    /\ slept = POLL_INTERVAL_SECONDS
    /\ Len(all_objects) = 2 /\ idx = 3
    /\ cycleStart.nodes # EmptyBag

\* C12: per-record failure isolation: while records of a fetched batch remain,
\* the next step of the loop hands the next record, in fetched order, to
\* load_stix_object, whatever the store rejected before; the loop sleeps only
\* after the last record.
C12_RecordIsolation ==
    /\ [][(pc = "processing" /\ idx <= Len(all_objects))
            => /\ pc' = "processing"
               /\ idx' = idx + 1
               /\ lastRec' = all_objects[idx]
               /\ all_objects' = all_objects
         ]_vars
    /\ [](pc = "processing" => idx \in 1..(Len(all_objects) + 1))
    /\ [](pc = "sleep" => idx = Len(all_objects) + 1)

\* first cycle: the node write of rep1 was rejected, ind1a was still processed
C12_Witness ==
    /\ pc = "processing"
    /\ all_objects = <<rep1, ind1a>> /\ idx = 3
    /\ cycleStart.nodes = EmptyBag
    /\ ~HasVertex(Report, R1)
    /\ HasVertex(Indicator, I1)

\* C13: every non-relationship record with a non-empty object_refs list,
\* whatever its type tag, gets, after its node upsert, one REFERENCES upsert
\* attempted per listed id, in list order.
C13_ContainerDerivesReferences ==
    ( /\ "object_refs" \in DOMAIN lastRec
      /\ Get(lastRec, "type", None) # S(Relationship)
      /\ lastRec["object_refs"].k = "list" /\ Len(lastRec["object_refs"].l) > 0
      /\ Len(lastWrites) >= 1 /\ lastWrites[1].op = "node" /\ lastWrites[1].ok )
    => /\ Len(lastWrites) = 1 + Len(lastRec["object_refs"].l)
       /\ \A i \in 1..Len(lastRec["object_refs"].l) :
             /\ lastWrites[i + 1].op = "ref"
             /\ lastWrites[i + 1].ref = S(lastRec["object_refs"].l[i])

\* a container record: any record that is not a relationship and carries a
\* list object_refs, whatever its type tag
IsContainer(rec) ==
    /\ Get(rec, "type", None) # S(Relationship)
    /\ "object_refs" \in DOMAIN rec /\ rec["object_refs"].k = "list"

RefEdges(src_id, tgt_id) ==
    {e \in DOMAIN edges : e.type = REFERENCES /\ e.src.id = src_id /\ e.tgt.id = tgt_id}

\* C14: convergence by re-delivery, no write failures: at the end of a complete
\* cycle that delivered a container record, a REFERENCES edge leads from the
\* container to every referenced id that had a vertex when the cycle began
\* (exactly one edge when exactly one vertex carries that id), and a
\* REFERENCES edge, once there, is there in every later state.
C14_ConvergesByRedelivery ==
    /\ [](pc = "sleep" =>
            \A k \in 1..Len(all_objects) : IsContainer(all_objects[k]) =>
               \A i \in 1..Len(all_objects[k]["object_refs"].l) :
                  LET ref == S(all_objects[k]["object_refs"].l[i])
                      es == RefEdges(all_objects[k]["id"], ref)
                  IN (MatchById(cycleStart.nodes, ref) # {})
                     => /\ es # {}
                        /\ Cardinality(MatchById(nodes, ref)) = 1
                              => (Cardinality(es) = 1 /\ \A e \in es : edges[e] = 1))
    /\ [][\A e \in DOMAIN edges : e.type = REFERENCES => e \in DOMAIN edges']_vars

MissingEndpoint(rec) ==
    \E f \in {"source_ref", "target_ref"} :
        \/ f \notin DOMAIN rec
        \/ rec[f].k = "none"
        \/ rec[f].k = "str" /\ rec[f].s = <<>>

\* C15: processing a relationship-typed record leaves every vertex as it was;
\* when its source_ref or target_ref is absent or empty, it makes no write at
\* all and leaves the whole graph as it was.
C15_RelationshipWritesNoVertex ==
    [][ Get(lastRec', "type", None) = S(Relationship)
        => /\ nodes' = nodes
           /\ \A i \in DOMAIN lastWrites' : lastWrites'[i].op = "rel"
           /\ MissingEndpoint(lastRec')
                 => (edges' = edges /\ lastWrites' = <<>>)
      ]_vars

\* both endpoint vertices exist, the record without target_ref was processed
C15_Witness ==
    /\ lastRec = relNoTarget
    /\ lastWrites = <<>>
    /\ HasVertex(Indicator, I1) /\ HasVertex(Indicator, I2)
    /\ edges = EmptyBag

\* C16: for every name, the label the node sanitizer makes of it equals the
\* edge type the two edge sanitizers make of it.
C16_SameSanitizer == san.done => san.label = san.reltype

EdgeId(e) == IF "id" \in Keys(e.props) THEN PropOf(e.props, "id") ELSE None

\* C17: no step removes a vertex or an edge: every vertex is still there
\* afterwards with its label, its id and at least its property keys, every edge
\* with its endpoints, its type, its id and at least its property keys, and
\* the number of vertices and of edges of each identity never goes down.
C17_NoDeletion ==
    [][ /\ \A v \in DOMAIN nodes :
              /\ \E w \in DOMAIN nodes' :
                    /\ w.label = v.label /\ VId(w) = VId(v)
                    /\ Keys(v.props) \subseteq Keys(w.props)
              /\ BagSum(nodes', {w \in DOMAIN nodes' : VKey(w) = VKey(v)})
                    >= BagSum(nodes, {w \in DOMAIN nodes : VKey(w) = VKey(v)})
        /\ \A e \in DOMAIN edges :
              /\ \E f \in DOMAIN edges' :
                    /\ f.src = e.src /\ f.tgt = e.tgt /\ f.type = e.type
                    /\ EdgeId(f) = EdgeId(e)
                    /\ Keys(e.props) \subseteq Keys(f.props)
              /\ BagSum(edges', {f \in DOMAIN edges' : f.src = e.src /\ f.tgt = e.tgt
                                      /\ f.type = e.type /\ EdgeId(f) = EdgeId(e)})
                    >= BagSum(edges, {f \in DOMAIN edges : f.src = e.src /\ f.tgt = e.tgt
                                       /\ f.type = e.type /\ EdgeId(f) = EdgeId(e)})
        /\ BagCardinality(nodes') >= BagCardinality(nodes)
        /\ BagCardinality(edges') >= BagCardinality(edges)
      ]_vars

\* the vertex i1 was upserted again after it got its edges: the edges and the
\* key pattern, which the last payload lacks, are still there
C17_Witness ==
    /\ lastRec = ind1a
    /\ \E v \in DOMAIN nodes :
          /\ v.label = Indicator /\ VId(v) = S(I1)
          /\ Keys(v.props) = {"id", "type", "name", "pattern"}
    /\ HasEdge(Indicator, I1, Indicator, I2, RELATED_TO)
    /\ HasEdge(Report, R1, Indicator, I1, REFERENCES)

\* the vertex that the node upsert of the record just processed wrote
OwnVertex(k, rec, writes) ==
    /\ Len(writes) >= 1 /\ writes[1].op = "node" /\ writes[1].ok
    /\ k = [label |-> LabelName(SanitizeLabel(Get(rec, "type", S(STIXObject)).s)),
            id |-> CypherValue(rec["id"])]

\* C18: no dangling edges: both endpoints of every edge are vertices of the
\* graph, no edge starts or ends at an id that no vertex carries, and an edge
\* appears only between vertices that were there before the processing that
\* wrote it, or that are the vertex of the record processed: an edge to an id
\* stays absent for as long as no record with that id has been upserted.
C18_NoDanglingEdges ==
    /\ [](\A e \in DOMAIN edges :
             /\ \E v \in DOMAIN nodes : VKey(v) = e.src
             /\ \E v \in DOMAIN nodes : VKey(v) = e.tgt)
    /\ [](\A idc \in {I1, I2, R1, N1, E1, E2, E3} :
             (\A v \in DOMAIN nodes : VId(v) # S(idc))
                 => \A e \in DOMAIN edges : e.src.id # S(idc) /\ e.tgt.id # S(idc))
    /\ [][ \A e \in DOMAIN edges' \ DOMAIN edges :
              /\ \/ \E v \in DOMAIN nodes : VKey(v) = e.src
                 \/ OwnVertex(e.src, lastRec', lastWrites')
              /\ \/ \E v \in DOMAIN nodes : VKey(v) = e.tgt
                 \/ OwnVertex(e.tgt, lastRec', lastWrites')
          ]_vars

\* the report was processed with all writes accepted while i1 existed and i2
\* did not: the edge to i1 is there, none to i2
C18_Witness ==
    /\ lastRec = rep1
    /\ Len(lastWrites) = 3 /\ \A i \in 1..3 : lastWrites[i].ok
    /\ HasVertex(Report, R1) /\ HasVertex(Indicator, I1)
    /\ \A v \in DOMAIN nodes : VId(v) # S(I2)
    /\ HasEdge(Report, R1, Indicator, I1, REFERENCES)
    /\ \A e \in DOMAIN edges : e.tgt.id # S(I2)

\* more is true and next is a non-empty token
HasNextPage(response) ==
    /\ "more" \in DOMAIN response /\ response["more"] = Bool(TRUE)
    /\ "next" \in DOMAIN response /\ response["next"].k = "str"
    /\ response["next"].s # <<>>

\* C19: fetch termination: when every chain of pages the feed serves ends,
\* every fetch is followed by a sleep; and the walk itself never ends a
\* chain: whatever the number of pages fetched and whether or not the token
\* was used before, a page with a next page is followed by the request of
\* that page, and only a page without one ends the walk.
C19_FetchTerminates ==
    /\ (pc = "fetching") ~> (pc \in {"sleep", "sleep_error"})
    /\ [][ (pc = "fetching" /\ Len(responses') = Len(responses) + 1)
            => IF HasNextPage(responses'[Len(responses')])
               THEN /\ pc' = "fetching"
                    /\ current_url' = NextUrl(responses'[Len(responses')]["next"])
               ELSE pc' = "processing"
          ]_vars
    /\ [](\A i \in DOMAIN responses :
             i < Len(responses) => HasNextPage(responses[i]))

\* a cycle of three pages that asked for the page of token a twice and then
\* went to sleep
C19_Witness ==
    /\ pc = "sleep"
    /\ requests = <<TAXII_BASE_URL, NextUrl(S(<<"a">>)), NextUrl(S(<<"a">>))>>
    /\ Len(responses) = 3
    /\ Len(all_objects) >= 1

\* C20: failure isolation inside one record: when the node write of a record
\* fails, no reference write is attempted in that processing; when reference
\* writes are attempted, every listed id gets exactly one attempt, in list
\* order, whichever of the attempts fail.
C20_RefFailureIsolation ==
    /\ (Len(lastWrites) >= 1 /\ lastWrites[1].op = "node" /\ ~lastWrites[1].ok)
          => Len(lastWrites) = 1
    /\ (\E i \in DOMAIN lastWrites : lastWrites[i].op = "ref")
          => /\ "object_refs" \in DOMAIN lastRec
             /\ lastWrites[1].op = "node" /\ lastWrites[1].ok
             /\ Len(lastWrites) = 1 + Len(IterItems(lastRec["object_refs"]))
             /\ \A i \in 1..Len(IterItems(lastRec["object_refs"])) :
                   /\ lastWrites[i + 1].op = "ref"
                   /\ lastWrites[i + 1].ref = IterItems(lastRec["object_refs"])[i]

\* the upsert of the edge to i1 was rejected, the one to i2 was made after it
\* and created the edge
C20_Witness ==
    /\ lastRec = rep1 /\ Len(lastWrites) = 3
    /\ lastWrites[1].ok
    /\ lastWrites[2].rejected /\ ~lastWrites[2].ok /\ lastWrites[2].ref = S(I1)
    /\ lastWrites[3].ok /\ lastWrites[3].changed /\ lastWrites[3].ref = S(I2)
    /\ HasVertex(Indicator, I1)
    /\ RefEdges(S(R1), S(I1)) = {}

====
